---- MODULE Spec2Model ----
(***************************************************************************)
(* A model of the Todoist MCP server's task handlers: the remote task      *)
(* store, the dry-run wrapper around the Todoist client, the two task-list *)
(* caches (the CacheManager "tasks" cache of task-handlers and the private *)
(* SimpleCache of subtask-handlers), the task hierarchy builder and the    *)
(* bulk handlers with their search-criteria validation.                    *)
(*                                                                         *)
(* Strings are sequences of one-character strings, so that toLowerCase,    *)
(* trim and includes are computed rather than assumed.  Task ids are the   *)
(* naturals 1..MaxTasks (0 stands for undefined/null).                     *)
(***************************************************************************)
EXTENDS Integers, Sequences, FiniteSets, TLC

VARIABLES
    remote,        \* the Todoist account: id -> task record, or NoTask
    nextId,        \* next id the remote service gives to a created task
    tasksCache,    \* CacheManager "tasks" SimpleCache (task-handlers)
    subtaskCache,  \* SimpleCache of subtask-handlers ("todoist_tasks")
    now,           \* Date.now(), in milliseconds
    dryRun,        \* process.env.DRYRUN === "true" when the client was created
    taskIdCounter, \* DryRunWrapper.taskIdCounter
    calls,         \* methods of the underlying TodoistApi the last call invoked
    result,        \* what the last handler returned or threw
    cache,         \* a SimpleCache instance used directly through its methods
    written,       \* per key of `cache`: the last set not yet deleted or cleared
    pending,       \* tool invocations suspended at an await, oldest first
    lookups,       \* get and resetStats calls made on `cache`
    labelStatsCache,    \* SimpleCache of label-handlers ("labels:stats")
    completedTaskCache  \* CacheManager "completed_tasks" SimpleCache

vars == <<remote, nextId, tasksCache, subtaskCache, now, dryRun, taskIdCounter,
          calls, result, cache, written, pending, lookups, labelStatsCache,
          completedTaskCache>>

(***************************************************************************)
(* Bounds of the model.                                                    *)
(***************************************************************************)
MaxTasks == 3
MaxMocks == 2
\* Frames the engine's call stack holds before it raises RangeError; always
\* enough for any acyclic task set of the model.
StackLimit == 2 * MaxTasks

Ids == 1..MaxTasks
NoTask == [id |-> 0]

\* DryRunWrapper.taskIdCounter at construction
TaskIdCounterStart == 100000

(***************************************************************************)
(* Strings.                                                                *)
(***************************************************************************)
UpperLetters == <<"A", "B", "C", "D", "E", "F", "G", "H", "I", "J", "K", "L", "M",
                  "N", "O", "P", "Q", "R", "S", "T", "U", "V", "W", "X", "Y", "Z">>
LowerLetters == <<"a", "b", "c", "d", "e", "f", "g", "h", "i", "j", "k", "l", "m",
                  "n", "o", "p", "q", "r", "s", "t", "u", "v", "w", "x", "y", "z">>
Digits == <<"0", "1", "2", "3", "4", "5", "6", "7", "8", "9">>

UpperSet == {UpperLetters[i] : i \in 1..26}

LowerChar(ch) ==
    IF ch \in UpperSet
    THEN LowerLetters[CHOOSE i \in 1..26 : UpperLetters[i] = ch]
    ELSE ch

toLowerCase(s) == [i \in 1..Len(s) |-> LowerChar(s[i])]

includes(s, sub) ==
    \E i \in 0..(Len(s) - Len(sub)) : SubSeq(s, i + 1, i + Len(sub)) = sub

RECURSIVE trimStart(_)
trimStart(s) == IF s # <<>> /\ Head(s) = " " THEN trimStart(Tail(s)) ELSE s

RECURSIVE trimEnd(_)
trimEnd(s) ==
    IF s # <<>> /\ s[Len(s)] = " " THEN trimEnd(SubSeq(s, 1, Len(s) - 1)) ELSE s

trim(s) == trimEnd(trimStart(s))

\* String(id) for the small ids of the model
IdText(id) == <<Digits[id + 1]>>

TxtTaskNotFound == <<"T", "a", "s", "k", " ", "n", "o", "t", " ", "f", "o", "u", "n", "d", ":", " ">>
TxtFailedTo == <<"F", "a", "i", "l", "e", "d", " ", "t", "o", " ">>
TxtValidationFailedDuring == <<"V", "a", "l", "i", "d", "a", "t", "i", "o", "n", " ", "f", "a", "i", "l", "e", "d", " ", "d", "u", "r", "i", "n", "g", " ">>
TxtColonSpace == <<":", " ">>
TxtFindTask == <<"f", "i", "n", "d", "T", "a", "s", "k">>
TxtGetTaskHierarchy == <<"g", "e", "t", "T", "a", "s", "k", "H", "i", "e", "r", "a", "r", "c", "h", "y">>
TxtEitherRequired == <<"E", "i", "t", "h", "e", "r", " ", "t", "a", "s", "k", "_", "i", "d", " ", "o", "r", " ", "t", "a", "s", "k", "_", "n", "a", "m", "e", " ", "i", "s", " ", "r", "e", "q", "u", "i", "r", "e", "d">>
TxtStatus404 == <<"4", "0", "4">>
TxtMaxStack == <<"M", "a", "x", "i", "m", "u", "m", " ", "c", "a", "l", "l", " ", "s", "t", "a", "c", "k", " ", "s", "i", "z", "e", " ", "e", "x", "c", "e", "e", "d", "e", "d">>
NeedleUnauthorized == <<"u", "n", "a", "u", "t", "h", "o", "r", "i", "z", "e", "d">>
NeedleAuthentication == <<"a", "u", "t", "h", "e", "n", "t", "i", "c", "a", "t", "i", "o", "n">>
NeedleInvalidToken == <<"i", "n", "v", "a", "l", "i", "d", " ", "t", "o", "k", "e", "n">>
NeedleForbidden == <<"f", "o", "r", "b", "i", "d", "d", "e", "n">>
Needle401 == <<"4", "0", "1">>
Needle403 == <<"4", "0", "3">>
NeedleValidation == <<"v", "a", "l", "i", "d", "a", "t", "i", "o", "n">>
NeedleInvalidInput == <<"i", "n", "v", "a", "l", "i", "d", " ", "i", "n", "p", "u", "t">>
NeedleBadRequest == <<"b", "a", "d", " ", "r", "e", "q", "u", "e", "s", "t">>
Needle400 == <<"4", "0", "0">>

(***************************************************************************)
(* Errors: a thrown value is a record of its class and its message.        *)
(***************************************************************************)
Thrown(kind, message) == [kind |-> kind, message |-> message]
Ok(v) == [ok |-> TRUE, val |-> v]
Err(e) == [ok |-> FALSE, val |-> e]

isAuthenticationError(error) ==
    LET message == toLowerCase(error.message)
    IN \/ includes(message, NeedleUnauthorized)
       \/ includes(message, NeedleAuthentication)
       \/ includes(message, NeedleInvalidToken)
       \/ includes(message, NeedleForbidden)
       \/ includes(message, Needle401)
       \/ includes(message, Needle403)

isValidationError(error) ==
    LET message == toLowerCase(error.message)
    IN \/ includes(message, NeedleValidation)
       \/ includes(message, NeedleInvalidInput)
       \/ includes(message, NeedleBadRequest)
       \/ includes(message, Needle400)

\* ErrorHandler.handleAPIError: the value it throws.  Every value thrown in
\* the model is an Error instance, so the String(error) branch is not taken.
handleAPIError(operation, error) ==
    IF isAuthenticationError(error)
    THEN Thrown("AuthenticationError", NeedleAuthentication)
    ELSE IF isValidationError(error)
    THEN Thrown("ValidationError",
                TxtValidationFailedDuring \o operation \o TxtColonSpace \o error.message)
    ELSE Thrown("TodoistAPIError", TxtFailedTo \o operation)

(***************************************************************************)
(* Optional values: <<>> is undefined/null, <<v>> is the value v.          *)
(***************************************************************************)
Undefined == <<>>
Some(v) == <<v>>

(***************************************************************************)
(* SimpleCache (cache.ts).  A cache is its Map, as the sequence of entries *)
(* in insertion order, with the two statistics counters; its config is     *)
(* passed to the operations.  maxSize 0 stands for "not configured".       *)
(***************************************************************************)
DefaultTtl == 30000
TasksCacheMaxSize == 1000

SubtaskCacheConfig ==
    [defaultTtl |-> DefaultTtl, maxSize |-> 0,
     enableStats |-> TRUE, enableAccessTracking |-> TRUE]

TasksCacheConfig ==
    [defaultTtl |-> DefaultTtl, maxSize |-> TasksCacheMaxSize,
     enableStats |-> TRUE, enableAccessTracking |-> TRUE]

EmptyCache == [entries |-> <<>>, hitCount |-> 0, missCount |-> 0]

\* position of key in the Map, 0 when absent
CacheIndex(c, key) ==
    IF \E i \in 1..Len(c.entries) : c.entries[i].key = key
    THEN CHOOSE i \in 1..Len(c.entries) : c.entries[i].key = key
    ELSE 0

RemoveAt(seq, i) == SubSeq(seq, 1, i - 1) \o SubSeq(seq, i + 1, Len(seq))

isExpiredAtTtl(entry, t) == t - entry.timestamp >= entry.ttl

isExpired(entry, t) == t - entry.timestamp > entry.ttl

\* entry.lastAccessed || entry.timestamp
LastAccessedOf(entry) ==
    IF entry.lastAccessed # 0 THEN entry.lastAccessed ELSE entry.timestamp

\* the scan of evictLeastRecentlyUsed over entries 1..n: <<lruTime, lruKey index>>
RECURSIVE LruScan(_, _, _)
LruScan(entries, n, t) ==
    IF n = 0 THEN <<t, 0>>
    ELSE LET prev == LruScan(entries, n - 1, t)
         IN IF LastAccessedOf(entries[n]) < prev[1]
            THEN <<LastAccessedOf(entries[n]), n>>
            ELSE prev

evictLeastRecentlyUsed(c, t) ==
    IF Len(c.entries) = 0 THEN c
    ELSE LET lru == LruScan(c.entries, Len(c.entries), t)[2]
         IN IF lru # 0 THEN [c EXCEPT !.entries = RemoveAt(c.entries, lru)] ELSE c

\* set(key, data, ttl?) at time t; ttl is Undefined or Some(number)
CacheSet(c, cfg, key, data, ttl, t) ==
    LET c1 == IF cfg.maxSize # 0 /\ Len(c.entries) >= cfg.maxSize
              THEN evictLeastRecentlyUsed(c, t) ELSE c
        entry == [key |-> key, data |-> data, timestamp |-> t,
                  ttl |-> IF ttl = Undefined THEN cfg.defaultTtl ELSE ttl[1],
                  accessCount |-> 0, lastAccessed |-> t]
        i == CacheIndex(c1, key)
    IN IF i = 0
       THEN [c1 EXCEPT !.entries = Append(c1.entries, entry)]
       ELSE [c1 EXCEPT !.entries[i] = entry]

\* a get that does not count the miss on an expired entry
CacheGetExpiredUncounted(c, cfg, key, t) ==
    LET i == CacheIndex(c, key)
        miss == IF cfg.enableStats THEN c.missCount + 1 ELSE c.missCount
        hit == IF cfg.enableStats THEN c.hitCount + 1 ELSE c.hitCount
    IN IF i = 0
       THEN [cache |-> [c EXCEPT !.missCount = miss], value |-> Undefined]
       ELSE IF isExpired(c.entries[i], t)
       THEN [cache |-> [c EXCEPT !.entries = RemoveAt(c.entries, i)],
             value |-> Undefined]
       ELSE [cache |->
               [c EXCEPT !.entries[i].accessCount =
                             IF cfg.enableAccessTracking THEN @ + 1 ELSE @,
                         !.entries[i].lastAccessed =
                             IF cfg.enableAccessTracking THEN t ELSE @,
                         !.hitCount = hit],
             value |-> Some(c.entries[i].data)]

\* get(key) at time t: the cache afterwards and the value (Undefined for null)
CacheGet(c, cfg, key, t) ==
    LET i == CacheIndex(c, key)
        miss == IF cfg.enableStats THEN c.missCount + 1 ELSE c.missCount
        hit == IF cfg.enableStats THEN c.hitCount + 1 ELSE c.hitCount
    IN IF i = 0
       THEN [cache |-> [c EXCEPT !.missCount = miss], value |-> Undefined]
       ELSE IF isExpired(c.entries[i], t)
       THEN [cache |-> [c EXCEPT !.entries = RemoveAt(c.entries, i),
                                 !.missCount = miss],
             value |-> Undefined]
       ELSE [cache |->
               [c EXCEPT !.entries[i].accessCount =
                             IF cfg.enableAccessTracking THEN @ + 1 ELSE @,
                         !.entries[i].lastAccessed =
                             IF cfg.enableAccessTracking THEN t ELSE @,
                         !.hitCount = hit],
             value |-> Some(c.entries[i].data)]

CacheClear(c) == [c EXCEPT !.entries = <<>>]

(***************************************************************************)
(* The Todoist account behind the underlying TodoistApi client.            *)
(***************************************************************************)
IsTask(t) == t.id # 0

\* what GET /tasks lists: the tasks of the account in id order
Listing(r) == SelectSeq([i \in 1..MaxTasks |-> r[i]], IsTask)

\* client.getTask(id): the task, or the request error of an unknown id
ApiGetTask(r, id) ==
    IF id \in Ids /\ IsTask(r[id]) THEN Ok(r[id])
    ELSE Err(Thrown("Error", TxtStatus404))

\* JavaScript values as far as extractArrayFromResponse tells them apart:
\* undefined, null, numbers, strings, arrays, and objects with the properties
\* `results` and `data` (JsUndefined when the object has no such property)
JsUndefined == [shape |-> "undefined"]
JsArray(items) == [shape |-> "array", items |-> items]
JsObject(results, data) == [shape |-> "object", results |-> results, data |-> data]

\* client.getTasks(): the response envelope
ApiGetTasks(r) == JsObject(JsArray(Listing(r)), JsUndefined)

\* ToBoolean, as `||` applies it
truthy(v) ==
    IF v.shape \in {"undefined", "null"} THEN FALSE
    ELSE IF v.shape = "number" THEN v.num # 0
    ELSE IF v.shape = "string" THEN v.str # <<>>
    ELSE TRUE

\* extractArrayFromResponse (api-helpers.ts): the value it returns;
\* responseObj?.results is undefined for null, undefined and primitives
extractArrayFromResponse(response) ==
    LET results == IF response.shape = "object" THEN response.results ELSE JsUndefined
        data == IF response.shape = "object" THEN response.data ELSE JsUndefined
    IN IF response.shape = "array" THEN response
       ELSE IF truthy(results) THEN results
       ELSE IF truthy(data) THEN data
       ELSE JsArray(<<>>)

\* Array.prototype.find: Some(first element satisfying P) or Undefined
Find(seq, P(_)) ==
    IF \E i \in 1..Len(seq) : P(seq[i])
    THEN Some(seq[CHOOSE i \in 1..Len(seq) :
                    P(seq[i]) /\ \A j \in 1..(i - 1) : ~P(seq[j])])
    ELSE Undefined


(***************************************************************************)
(* Tasks of the model.                                                     *)
(***************************************************************************)
TxtPlan == <<"P", "l", "a", "n">>
TxtPlanB == <<"p", "l", "a", "n", " ", "B">>
TxtCall == <<"C", "a", "l", "l">>
TxtInbox == <<"i", "n", "b", "o", "x">>

ContentOf(id) == IF id = 1 THEN TxtPlan ELSE IF id = 2 THEN TxtPlanB ELSE TxtCall

Task(id, content, parentId, isCompleted) ==
    [id |-> id, content |-> content, parentId |-> parentId,
     isCompleted |-> isCompleted, projectId |-> TxtInbox, priority |-> 1]

(***************************************************************************)
(* subtask-handlers.ts                                                     *)
(***************************************************************************)
SubtaskCacheKey == "todoist_tasks"

\* findTask: what it returns or throws, the module's taskCache afterwards, and
\* the client methods it called.
\* args.task_id = 0 and args.task_name = <<>> are the falsy (absent) values.
findTask(c, args, r, t) ==
    IF args.task_id = 0 /\ args.task_name = <<>>
    THEN [res |-> Err(Thrown("ValidationError", TxtEitherRequired)), cache |-> c,
          calls |-> <<>>]
    ELSE IF args.task_id # 0
    THEN LET response == ApiGetTask(r, args.task_id)
         IN [res |-> IF response.ok THEN Ok(response.val)
                     ELSE Err(handleAPIError(TxtFindTask, response.val)),
             cache |-> c, calls |-> <<"getTask">>]
    ELSE LET got == CacheGet(c, SubtaskCacheConfig, SubtaskCacheKey, t)
             hit == got.value # Undefined
             tasks == IF hit THEN got.value[1]
                      ELSE extractArrayFromResponse(ApiGetTasks(r)).items
             c2 == IF hit THEN got.cache
                   ELSE CacheSet(got.cache, SubtaskCacheConfig, SubtaskCacheKey,
                                 tasks, Undefined, t)
             searchTerm == toLowerCase(args.task_name)
             Matches(x) == includes(toLowerCase(x.content), searchTerm)
             task == Find(tasks, Matches)
         IN [res |-> IF task = Undefined
                     THEN Err(Thrown("TaskNotFoundError",
                                     TxtTaskNotFound \o args.task_name))
                     ELSE Ok(task[1]),
             cache |-> c2, calls |-> IF hit THEN <<>> ELSE <<"getTasks">>]

\* a walk that takes no step: the requested task itself
AncestorWalkNone(topmostParent, visitedIds, allTasks) == topmostParent

\* the upward loop of handleGetTaskHierarchy
RECURSIVE AncestorWalk(_, _, _)
AncestorWalk(topmostParent, visitedIds, allTasks) ==
    IF topmostParent.parentId # 0 /\ topmostParent.id \notin visitedIds
    THEN LET IsParent(x) == x.id = topmostParent.parentId
             parent == Find(allTasks, IsParent)
         IN IF parent # Undefined
            THEN AncestorWalk(parent[1], visitedIds \cup {topmostParent.id}, allTasks)
            ELSE topmostParent
    ELSE topmostParent

\* Math.round(num / den * 100) for 0 <= num and 0 < den
RoundPercent(num, den) == (200 * num + den) \div (2 * den)

\* childNodes.reduce((sum, node) => sum + node[field], initial)
RECURSIVE ReduceSum(_, _, _)
ReduceSum(nodes, field, initial) ==
    IF nodes = <<>> THEN initial
    ELSE ReduceSum(SubSeq(nodes, 1, Len(nodes) - 1), field, initial)
         + nodes[Len(nodes)][field]

\* the filter of buildTaskTree that selects the direct children of `task`
IsChildOfNoPrune(x, task, include_completed) == x.parentId = task.id

IsChildOf(x, task, include_completed) ==
    x.parentId = task.id /\ (include_completed \/ ~x.isCompleted)

\* a node whose totalTasks counts the task itself and none of its subtasks
TaskNodeOfSelfOnly(task, depth, originalTaskId, childNodes) ==
    LET IsDone(n) == n.task.isCompleted
        completedSubtasks ==
            ReduceSum(childNodes, "completedTasks", Len(SelectSeq(childNodes, IsDone)))
    IN [task |-> task,
        children |-> childNodes,
        depth |-> depth,
        completionPercentage |-> IF task.isCompleted THEN 100 ELSE 0,
        totalTasks |-> 1,
        completedTasks |-> (IF task.isCompleted THEN 1 ELSE 0) + completedSubtasks,
        isOriginalTask |-> task.id = originalTaskId]

\* a node whose totalSubtasks sums the children's totalTasks from 0, while
\* completedSubtasks still starts from the number of completed children
TaskNodeOfSumFromZero(task, depth, originalTaskId, childNodes) ==
    LET IsDone(n) == n.task.isCompleted
        totalSubtasks == ReduceSum(childNodes, "totalTasks", 0)
        completedSubtasks ==
            ReduceSum(childNodes, "completedTasks", Len(SelectSeq(childNodes, IsDone)))
        completionPercentage ==
            IF totalSubtasks > 0
            THEN RoundPercent(completedSubtasks, totalSubtasks)
            ELSE IF task.isCompleted THEN 100 ELSE 0
    IN [task |-> task,
        children |-> childNodes,
        depth |-> depth,
        completionPercentage |-> completionPercentage,
        totalTasks |-> 1 + totalSubtasks,
        completedTasks |-> (IF task.isCompleted THEN 1 ELSE 0) + completedSubtasks,
        isOriginalTask |-> task.id = originalTaskId]

\* the node buildTaskTree returns for `task`, given its built child nodes
TaskNodeOf(task, depth, originalTaskId, childNodes) ==
    LET IsDone(n) == n.task.isCompleted
        totalSubtasks == ReduceSum(childNodes, "totalTasks", Len(childNodes))
        completedSubtasks ==
            ReduceSum(childNodes, "completedTasks", Len(SelectSeq(childNodes, IsDone)))
        completionPercentage ==
            IF totalSubtasks > 0
            THEN RoundPercent(completedSubtasks, totalSubtasks)
            ELSE IF task.isCompleted THEN 100 ELSE 0
    IN [task |-> task,
        children |-> childNodes,
        depth |-> depth,
        completionPercentage |-> completionPercentage,
        totalTasks |-> 1 + totalSubtasks,
        completedTasks |-> (IF task.isCompleted THEN 1 ELSE 0) + completedSubtasks,
        isOriginalTask |-> task.id = originalTaskId]

\* await Promise.all(children.map(...)): rejects when a child's build rejects
AwaitAll(task, depth, originalTaskId, built) ==
    IF \E i \in 1..Len(built) : ~built[i].ok
    THEN Err(Thrown("RangeError", TxtMaxStack))
    ELSE Ok(TaskNodeOf(task, depth, originalTaskId,
                       [i \in 1..Len(built) |-> built[i].val]))

\* buildTaskTree: Ok(node), or the RangeError of a recursion that outgrows
\* the call stack (the function has no guard against revisiting a task).
RECURSIVE buildTaskTree(_, _, _, _, _)
buildTaskTree(task, depth, originalTaskId, allTasks, include_completed) ==
    IF depth >= StackLimit THEN Err(Thrown("RangeError", TxtMaxStack))
    ELSE LET IsChild(x) == IsChildOf(x, task, include_completed)
             children == SelectSeq(allTasks, IsChild)
         IN AwaitAll(task, depth, originalTaskId,
                     [i \in 1..Len(children) |->
                        buildTaskTree(children[i], depth + 1, originalTaskId,
                                      allTasks, include_completed)])

\* the body of handleGetTaskHierarchy after findTask returned `found`
GetTaskHierarchyOutcome(found, args, r) ==
    IF ~found.ok THEN Err(handleAPIError(TxtGetTaskHierarchy, found.val))
    ELSE
    LET requestedTask == found.val
        allTasks == extractArrayFromResponse(ApiGetTasks(r)).items
        topmostParent == AncestorWalk(requestedTask, {}, allTasks)
        rootNode == buildTaskTree(topmostParent, 0, requestedTask.id, allTasks,
                                  args.include_completed)
    IN IF ~rootNode.ok THEN Err(handleAPIError(TxtGetTaskHierarchy, rootNode.val))
       ELSE Ok([root |-> rootNode.val,
                totalTasks |-> rootNode.val.totalTasks,
                completedTasks |-> rootNode.val.completedTasks,
                overallCompletion |->
                    RoundPercent(rootNode.val.completedTasks, rootNode.val.totalTasks),
                originalTaskId |-> requestedTask.id])

handleGetTaskHierarchy(args) ==
    LET found == findTask(subtaskCache, args, remote, now)
    IN /\ subtaskCache' = found.cache
       /\ result' = [op |-> "getTaskHierarchy", args |-> args,
                     outcome |-> GetTaskHierarchyOutcome(found.res, args, remote)]
       /\ calls' = IF found.res.ok THEN Append(found.calls, "getTasks") ELSE found.calls
       /\ UNCHANGED <<remote, nextId, tasksCache, now, dryRun, lookups,
                      labelStatsCache, completedTaskCache, cache, written,
                      pending, taskIdCounter>>


(***************************************************************************)
(* Mutating calls of the underlying client.  A created task takes the id   *)
(* nextId; a call on an id the account does not hold is a request error.   *)
(***************************************************************************)
ApiDeleteTask(r, id) ==
    IF id \in Ids /\ IsTask(r[id]) THEN Ok([r EXCEPT ![id] = NoTask])
    ELSE Err(Thrown("Error", TxtStatus404))

ApiCloseTask(r, id) ==
    IF id \in Ids /\ IsTask(r[id]) THEN Ok([r EXCEPT ![id].isCompleted = TRUE])
    ELSE Err(Thrown("Error", TxtStatus404))

ApiAddTask(r, id, content, parentId) ==
    [r EXCEPT ![id] = Task(id, content, parentId, FALSE)]

TxtTaskQuote == <<"T", "a", "s", "k", " ", "\"">>
TxtNotASubtask ==
    <<"\"", " ", "i", "s", " ", "n", "o", "t", " ", "a", " ", "s", "u", "b",
      "t", "a", "s", "k">>
TxtPromoteSubtask ==
    <<"p", "r", "o", "m", "o", "t", "e", "S", "u", "b", "t", "a", "s", "k">>

\* handlePromoteSubtask (subtask-handlers.ts) without project_id/section_id:
\* delete the subtask, add it again without a parent, clear the module's cache
handlePromoteSubtask(args) ==
    LET found == findTask(subtaskCache,
                          [task_id |-> args.subtask_id, task_name |-> args.subtask_name],
                          remote, now)
        subtask == found.res.val
        deleted == ApiDeleteTask(remote, subtask.id)
        inner == IF ~found.res.ok THEN found.res
                 ELSE IF subtask.parentId = 0
                 THEN Err(Thrown("ValidationError",
                                 TxtTaskQuote \o subtask.content \o TxtNotASubtask))
                 ELSE IF ~deleted.ok THEN deleted
                 ELSE Ok(Task(nextId, subtask.content, 0, FALSE))
    IN /\ nextId <= MaxTasks
       /\ remote' = IF inner.ok
                    THEN ApiAddTask(deleted.val, nextId, subtask.content, 0)
                    ELSE remote
       /\ nextId' = IF inner.ok THEN nextId + 1 ELSE nextId
       /\ subtaskCache' = IF inner.ok THEN CacheClear(found.cache) ELSE found.cache
       /\ result' = [op |-> "promoteSubtask", args |-> args,
                     outcome |-> IF inner.ok THEN inner
                                 ELSE Err(handleAPIError(TxtPromoteSubtask, inner.val))]
       /\ calls' = found.calls
                   \o (IF found.res.ok /\ subtask.parentId # 0
                       THEN IF deleted.ok THEN <<"deleteTask", "addTask">>
                            ELSE <<"deleteTask">>
                       ELSE <<>>)
       /\ UNCHANGED <<tasksCache, now, dryRun, lookups, labelStatsCache,
                      completedTaskCache, cache, written, pending,
                      taskIdCounter>>

(***************************************************************************)
(* task-handlers.ts                                                        *)
(***************************************************************************)
TxtIdPrefix == <<"I", "D", ":", " ">>
TxtEitherProvided ==
    <<"E", "i", "t", "h", "e", "r", " ", "t", "a", "s", "k", "_", "i", "d",
      " ", "o", "r", " ", "t", "a", "s", "k", "_", "n", "a", "m", "e", " ",
      "m", "u", "s", "t", " ", "b", "e", " ", "p", "r", "o", "v", "i", "d",
      "e", "d">>
TxtEitherIdOrName ==
    <<"E", "i", "t", "h", "e", "r", " ", "t", "a", "s", "k", "_", "i", "d",
      "/", "t", "a", "s", "k", "I", "d", " ", "o", "r", " ", "t", "a", "s",
      "k", "_", "n", "a", "m", "e", "/", "t", "a", "s", "k", "N", "a", "m",
      "e", " ", "m", "u", "s", "t", " ", "b", "e", " ", "p", "r", "o", "v",
      "i", "d", "e", "d">>
TxtLimitRange ==
    <<"L", "i", "m", "i", "t", " ", "m", "u", "s", "t", " ", "b", "e", " ",
      "a", "n", " ", "i", "n", "t", "e", "g", "e", "r", " ", "b", "e", "t",
      "w", "e", "e", "n", " ", "1", " ", "a", "n", "d", " ", "1", "0", "0">>

\* validateTaskIdentifier (validation.ts)
validateTaskIdentifier(taskId, taskName) ==
    IF taskId = 0 /\ taskName = <<>>
    THEN Err(Thrown("ValidationError", TxtEitherProvided))
    ELSE Ok(TRUE)

\* validateLimit (validation.ts); limit is Undefined or Some(integer)
validateLimit(limit) ==
    IF limit # Undefined /\ (limit[1] < 1 \/ limit[1] > 100)
    THEN Err(Thrown("ValidationError", TxtLimitRange))
    ELSE Ok(TRUE)

\* ErrorHandler.handleTaskNotFound
handleTaskNotFound(taskName) == Thrown("TaskNotFoundError", taskName)

\* findTaskByIdOrName: reads the account directly, never a cache
findTaskByIdOrName(args, r) ==
    LET byId == IF args.task_id # 0 THEN ApiGetTask(r, args.task_id)
                ELSE Err(Undefined)
        searchTerm == toLowerCase(args.task_name)
        Matches(x) == includes(toLowerCase(x.content), searchTerm)
        matchingTask == Find(extractArrayFromResponse(ApiGetTasks(r)).items, Matches)
    IN IF args.task_id = 0 /\ args.task_name = <<>>
       THEN Err(Thrown("Error", TxtEitherIdOrName))
       ELSE IF byId.ok THEN byId
       ELSE IF args.task_name = <<>>
       THEN Err(handleTaskNotFound(TxtIdPrefix \o IdText(args.task_id)))
       ELSE IF matchingTask # Undefined THEN Ok(matchingTask[1])
       ELSE Err(handleTaskNotFound(args.task_name))

\* the client methods findTaskByIdOrName calls
LookupCalls(args, r) ==
    (IF args.task_id # 0 THEN <<"getTask">> ELSE <<>>)
    \o (IF args.task_name # <<>> /\ (args.task_id = 0 \/ ~ApiGetTask(r, args.task_id).ok)
        THEN <<"getTasks">> ELSE <<>>)

\* createCacheKey("tasks", apiParams): the prefix with the parameters kept
createCacheKey(prefix, limit) == <<prefix, limit>>

\* client.getTasks(apiParams)
ApiGetTasksWith(r, limit) ==
    JsObject(JsArray(IF limit = Undefined THEN Listing(r)
                     ELSE SubSeq(Listing(r), 1,
                                 IF limit[1] < Len(Listing(r)) THEN limit[1]
                                 ELSE Len(Listing(r)))),
             JsUndefined)

\* handleGetTasks for a request with task_id, task_name and limit (no filter,
\* project, label, priority or due criteria): the reply, the cache afterwards
\* and the client methods called
GetTasksOutcome(c, args, r, t) ==
    LET checked == validateLimit(args.limit)
        one == ApiGetTask(r, args.task_id)
        apiLimit == IF args.limit # Undefined /\ args.limit[1] > 0
                    THEN args.limit ELSE Undefined
        cacheKey == createCacheKey("tasks", apiLimit)
        got == CacheGet(c, TasksCacheConfig, cacheKey, t)
        \* if (!tasks): a cached value is an array, which is truthy
        hit == got.value # Undefined
        tasks == IF hit THEN got.value[1]
                 ELSE extractArrayFromResponse(ApiGetTasksWith(r, apiLimit)).items
        c2 == IF hit THEN got.cache
              ELSE CacheSet(got.cache, TasksCacheConfig, cacheKey, tasks, Undefined, t)
        searchTerm == toLowerCase(args.task_name)
        Matches(x) == includes(toLowerCase(x.content), searchTerm)
        named == IF args.task_name # <<>> THEN SelectSeq(tasks, Matches) ELSE tasks
        limited == IF args.limit # Undefined /\ args.limit[1] > 0
                   THEN SubSeq(named, 1, IF args.limit[1] < Len(named)
                                         THEN args.limit[1] ELSE Len(named))
                   ELSE named
    IN IF ~checked.ok THEN [res |-> checked, cache |-> c, calls |-> <<>>]
       ELSE IF args.task_id # 0
       THEN [res |-> Ok([kind |-> IF one.ok THEN "task" ELSE "notFound",
                         tasks |-> IF one.ok THEN <<one.val>> ELSE <<>>]),
             cache |-> c, calls |-> <<"getTask">>]
       ELSE [res |-> Ok([kind |-> "list", tasks |-> limited]), cache |-> c2,
             calls |-> IF hit THEN <<>> ELSE <<"getTasks">>]

handleGetTasks(args) ==
    LET out == GetTasksOutcome(tasksCache, args, remote, now)
    IN /\ tasksCache' = out.cache
       /\ result' = [op |-> "getTasks", args |-> args, outcome |-> out.res]
       /\ calls' = out.calls
       /\ UNCHANGED <<remote, nextId, subtaskCache, now, dryRun, lookups,
                      labelStatsCache, completedTaskCache, cache, written,
                      pending, taskIdCounter>>

\* handleDeleteTask: validate, clear the "tasks" cache, look the task up,
\* delete it
handleDeleteTask(args) ==
    LET checked == validateTaskIdentifier(args.task_id, args.task_name)
        matchingTask == findTaskByIdOrName(args, remote)
        deleted == ApiDeleteTask(remote, matchingTask.val.id)
    IN /\ tasksCache' = IF checked.ok THEN CacheClear(tasksCache) ELSE tasksCache
       /\ remote' = IF checked.ok /\ matchingTask.ok /\ deleted.ok
                    THEN deleted.val ELSE remote
       /\ result' = [op |-> "deleteTask", args |-> args,
                     outcome |-> IF ~checked.ok THEN checked
                                 ELSE IF ~matchingTask.ok THEN matchingTask
                                 ELSE IF ~deleted.ok THEN deleted
                                 ELSE Ok(matchingTask.val)]
       /\ calls' = IF ~checked.ok THEN <<>>
                   ELSE IF ~matchingTask.ok THEN LookupCalls(args, remote)
                   ELSE Append(LookupCalls(args, remote), "deleteTask")
       /\ UNCHANGED <<nextId, subtaskCache, now, dryRun, lookups,
                      labelStatsCache, completedTaskCache, cache, written,
                      pending, taskIdCounter>>

\* handleCompleteTask: validate, clear the "tasks" cache, look the task up,
\* close it
handleCompleteTask(args) ==
    LET checked == validateTaskIdentifier(args.task_id, args.task_name)
        matchingTask == findTaskByIdOrName(args, remote)
        closed == ApiCloseTask(remote, matchingTask.val.id)
    IN /\ tasksCache' = IF checked.ok THEN CacheClear(tasksCache) ELSE tasksCache
       /\ remote' = IF checked.ok /\ matchingTask.ok /\ closed.ok
                    THEN closed.val ELSE remote
       /\ result' = [op |-> "completeTask", args |-> args,
                     outcome |-> IF ~checked.ok THEN checked
                                 ELSE IF ~matchingTask.ok THEN matchingTask
                                 ELSE IF ~closed.ok THEN closed
                                 ELSE Ok(matchingTask.val)]
       /\ calls' = IF ~checked.ok THEN <<>>
                   ELSE IF ~matchingTask.ok THEN LookupCalls(args, remote)
                   ELSE Append(LookupCalls(args, remote), "closeTask")
       /\ UNCHANGED <<nextId, subtaskCache, now, dryRun, lookups,
                      labelStatsCache, completedTaskCache, cache, written,
                      pending, taskIdCounter>>

(***************************************************************************)
(* The hierarchy query over every task set of the bounds: any parent       *)
(* links to another id, dangling and cyclic ones included, any completion  *)
(* flags.                                                                  *)
(***************************************************************************)
NamePool == {<<"p", "l", "a", "n">>, <<"B">>, <<"z">>, Needle400, Needle401}

TaskShapes == {<<0, 0, FALSE>>} \cup ({1} \X (0..MaxTasks) \X BOOLEAN)

HierarchyArgs ==
    {[task_id |-> i, task_name |-> <<>>, include_completed |-> b] :
        i \in 0..(MaxTasks + 1), b \in BOOLEAN}
    \cup {[task_id |-> 0, task_name |-> n, include_completed |-> b] :
        n \in NamePool, b \in BOOLEAN}

NoResult == [op |-> "none"]

\* the parts of the state a scenario does not use, as they are at load
Keys == {"a", "b"}
NoWrites == [k \in Keys |-> Undefined]
NoLookups == [gets |-> 0, resets |-> 0]
Untouched ==
    /\ cache = EmptyCache
    /\ written = NoWrites
    /\ pending = <<>>
    /\ lookups = NoLookups
    /\ labelStatsCache = EmptyCache
    /\ completedTaskCache = EmptyCache

InitHierarchy ==
    /\ \E shape \in [Ids -> TaskShapes] :
          /\ \A i \in Ids : shape[i][2] # i
          /\ remote = [i \in Ids |->
                         IF shape[i][1] = 0 THEN NoTask
                         ELSE Task(i, ContentOf(i), shape[i][2], shape[i][3])]
    /\ nextId = MaxTasks + 1
    /\ tasksCache = EmptyCache
    /\ subtaskCache = EmptyCache
    /\ now = 0
    /\ dryRun = FALSE
    /\ taskIdCounter = TaskIdCounterStart
    /\ calls = <<>>
    /\ result = NoResult
    /\ Untouched

\* One query from every task set, and the same query once more, which then
\* finds the task list that a lookup by name left in the cache.
FirstQuery ==
    \E args \in HierarchyArgs : result = NoResult /\ handleGetTaskHierarchy(args)

RepeatQuery ==
    /\ result # NoResult
    /\ subtaskCache.missCount = 1
    /\ subtaskCache.hitCount = 0
    /\ handleGetTaskHierarchy(result.args)

NextHierarchy == FirstQuery \/ RepeatQuery

SpecHierarchy == InitHierarchy /\ [][NextHierarchy]_vars

(***************************************************************************)
(* Tool calls one after another on one account, with the clock advancing   *)
(* between them: reads through both caches, and mutations of either module.*)
(***************************************************************************)
MaxTicks == 2
MaxLookups == 2
TickStep == DefaultTtl \div 2 + 1

ById == [task_id |-> 2, task_name |-> <<>>]
ByName == [task_id |-> 0, task_name |-> <<"p", "l", "a", "n">>]

GetTasksArgs ==
    {[task_id |-> 0, task_name |-> <<>>, limit |-> Undefined],
     [task_id |-> 0, task_name |-> <<"B">>, limit |-> Some(1)],
     [task_id |-> 0, task_name |-> <<>>, limit |-> Some(0)]}

InitCache ==
    /\ remote = [i \in Ids |->
                   IF i = 1 THEN Task(1, ContentOf(1), 0, FALSE)
                   ELSE IF i = 2 THEN Task(2, ContentOf(2), 1, FALSE)
                   ELSE NoTask]
    /\ nextId = 3
    /\ tasksCache = EmptyCache
    /\ subtaskCache = EmptyCache
    /\ now = 0
    /\ dryRun = FALSE
    /\ taskIdCounter = TaskIdCounterStart
    /\ calls = <<>>
    /\ result = NoResult
    /\ Untouched

Tick ==
    /\ now < MaxTicks * TickStep
    /\ now' = now + TickStep
    /\ UNCHANGED <<remote, nextId, tasksCache, subtaskCache, dryRun, lookups,
                   labelStatsCache, completedTaskCache, cache, written,
                   pending, taskIdCounter, calls, result>>

GetTasks ==
    \E args \in GetTasksArgs :
        /\ tasksCache.hitCount + tasksCache.missCount < MaxLookups
        /\ handleGetTasks(args)

GetTaskHierarchy ==
    \E ref \in {ByName} :
        /\ subtaskCache.hitCount + subtaskCache.missCount < MaxLookups
        /\ handleGetTaskHierarchy([task_id |-> ref.task_id, task_name |-> ref.task_name,
                                   include_completed |-> TRUE])

DeleteTask == \E ref \in {ById, ByName} : handleDeleteTask(ref)

CompleteTask == \E ref \in {ById} : handleCompleteTask(ref)

PromoteSubtask ==
    \E ref \in {ById, ByName} :
        /\ subtaskCache.hitCount + subtaskCache.missCount < MaxLookups
        /\ handlePromoteSubtask([subtask_id |-> ref.task_id,
                                 subtask_name |-> ref.task_name])

NextCache ==
    \/ Tick
    \/ GetTasks
    \/ GetTaskHierarchy
    \/ DeleteTask
    \/ CompleteTask
    \/ PromoteSubtask

SpecCache == InitCache /\ [][NextCache]_vars

MutatingOps == {"deleteTask", "completeTask", "promoteSubtask"}

MutationReturned == result.op \in MutatingOps /\ result.outcome.ok

ServesAny(c, t) == \E i \in 1..Len(c.entries) : ~isExpired(c.entries[i], t)

\* C1: when a handler that deletes, completes or re-creates a task has
\* returned, neither the "tasks" cache of handleGetTasks nor the subtask
\* module's cache of findTask still serves an entry filled before it.
C1_NoCacheSurvivesMutation ==
    MutationReturned => ~ServesAny(tasksCache, now) /\ ~ServesAny(subtaskCache, now)


(***************************************************************************)
(* dry-run-wrapper.ts: the client createTodoistClient returns.  `calls` is *)
(* the list of methods of the underlying TodoistApi client that one call   *)
(* on the returned client invoked.                                         *)
(***************************************************************************)
TxtTaskWithId ==
    <<"T", "a", "s", "k", " ", "w", "i", "t", "h", " ", "I", "D", " ">>
TxtDoesNotExist ==
    <<" ", "d", "o", "e", "s", " ", "n", "o", "t", " ", "e", "x", "i", "s",
      "t">>

ApiReopenTask(r, id) ==
    IF id \in Ids /\ IsTask(r[id]) THEN Ok([r EXCEPT ![id].isCompleted = FALSE])
    ELSE Err(Thrown("Error", TxtStatus404))

ApiUpdateTask(r, id, content) ==
    IF id \in Ids /\ IsTask(r[id]) THEN Ok([r EXCEPT ![id].content = content])
    ELSE Err(Thrown("Error", TxtStatus404))

ApiMoveTask(r, id, projectId) ==
    IF id \in Ids /\ IsTask(r[id]) THEN Ok([r EXCEPT ![id].projectId = projectId])
    ELSE Err(Thrown("Error", TxtStatus404))

\* validateTaskExists: client.getTask, any failure replaced by its own Error
validateTaskExists(r, taskId) ==
    IF ApiGetTask(r, taskId).ok THEN ApiGetTask(r, taskId)
    ELSE Err(Thrown("Error", TxtTaskWithId \o IdText(taskId) \o TxtDoesNotExist))

\* what a call on the returned client leaves behind
Returned(op, args, outcome, r, underlying) ==
    /\ result' = [op |-> op, args |-> args, outcome |-> outcome]
    /\ remote' = r
    /\ calls' = underlying
    /\ UNCHANGED <<tasksCache, subtaskCache, now, dryRun, lookups,
                   labelStatsCache, completedTaskCache, cache, written,
                   pending>>

\* the pass-through client.<method>(id, ...) of a method acting on one task
PassThrough(op, method, args, done) ==
    /\ Returned(op, args, IF done.ok THEN Ok(TRUE) ELSE done,
                IF done.ok THEN done.val ELSE remote, <<method>>)
    /\ UNCHANGED <<nextId, taskIdCounter>>

\* the dry-run body shared in shape by deleteTask, closeTask and reopenTask:
\* validateTaskExists, log, return true
Simulated(op, args) ==
    LET existingTask == validateTaskExists(remote, args.id)
    IN /\ Returned(op, args, IF existingTask.ok THEN Ok(TRUE) ELSE existingTask,
                   remote, <<"getTask">>)
       /\ UNCHANGED <<nextId, taskIdCounter>>

\* DryRunWrapper.addTask with content and parentId
addTask(args) ==
    LET parent == validateTaskExists(remote, args.parentId)
        mockTask == [Task(taskIdCounter + 1, args.content, args.parentId, FALSE)
                        EXCEPT !.priority = 4] @@ [dryRunMark |-> TRUE]
    IN IF ~dryRun
       THEN /\ nextId <= MaxTasks
            /\ Returned("addTask", args,
                        Ok(Task(nextId, args.content, args.parentId, FALSE)),
                        ApiAddTask(remote, nextId, args.content, args.parentId),
                        <<"addTask">>)
            /\ nextId' = nextId + 1
            /\ UNCHANGED taskIdCounter
       ELSE IF args.parentId # 0 /\ ~parent.ok
       THEN /\ Returned("addTask", args, parent, remote, <<"getTask">>)
            /\ UNCHANGED <<nextId, taskIdCounter>>
       ELSE /\ taskIdCounter < TaskIdCounterStart + MaxMocks
            /\ Returned("addTask", args, Ok(mockTask), remote,
                        IF args.parentId # 0 THEN <<"getTask">> ELSE <<>>)
            /\ taskIdCounter' = taskIdCounter + 1
            /\ UNCHANGED nextId

\* DryRunWrapper.updateTask with a new content
updateTask(args) ==
    LET existingTask == validateTaskExists(remote, args.id)
        updated == ApiUpdateTask(remote, args.id, args.content)
    IN IF ~dryRun
       THEN /\ Returned("updateTask", args,
                        IF updated.ok THEN Ok(updated.val[args.id]) ELSE updated,
                        IF updated.ok THEN updated.val ELSE remote, <<"updateTask">>)
            /\ UNCHANGED <<nextId, taskIdCounter>>
       ELSE /\ Returned("updateTask", args,
                        IF existingTask.ok
                        THEN Ok([existingTask.val EXCEPT !.content = args.content]
                                @@ [dryRunMark |-> TRUE])
                        ELSE existingTask,
                        remote, <<"getTask">>)
            /\ UNCHANGED <<nextId, taskIdCounter>>

deleteTask(args) ==
    IF ~dryRun
    THEN PassThrough("deleteTask", "deleteTask", args, ApiDeleteTask(remote, args.id))
    ELSE Simulated("deleteTask", args)

closeTask(args) ==
    IF ~dryRun
    THEN PassThrough("closeTask", "closeTask", args, ApiCloseTask(remote, args.id))
    ELSE Simulated("closeTask", args)

reopenTask(args) ==
    IF ~dryRun
    THEN PassThrough("reopenTask", "reopenTask", args, ApiReopenTask(remote, args.id))
    ELSE Simulated("reopenTask", args)

\* DryRunWrapper.moveTasks([id], {projectId}): in dry-run each id is fetched
\* twice, once to validate and once to build the returned task
moveTasks(args) ==
    LET existingTask == validateTaskExists(remote, args.id)
        moved == ApiMoveTask(remote, args.id, args.projectId)
    IN IF ~dryRun
       THEN /\ Returned("moveTasks", args,
                        IF moved.ok THEN Ok(<<moved.val[args.id]>>) ELSE moved,
                        IF moved.ok THEN moved.val ELSE remote, <<"moveTasks">>)
            /\ UNCHANGED <<nextId, taskIdCounter>>
       ELSE /\ Returned("moveTasks", args,
                        IF existingTask.ok
                        THEN Ok(<<[existingTask.val EXCEPT !.projectId = args.projectId]>>)
                        ELSE existingTask,
                        remote,
                        IF existingTask.ok THEN <<"getTask", "getTask">>
                        ELSE <<"getTask">>)
            /\ UNCHANGED <<nextId, taskIdCounter>>

\* DryRunWrapper.quickAddTask: this.client.quickAddTask(args), in either mode
quickAddTask(args) ==
    /\ nextId <= MaxTasks
    /\ Returned("quickAddTask", args, Ok(Task(nextId, args.text, 0, FALSE)),
                ApiAddTask(remote, nextId, args.text, 0), <<"quickAddTask">>)
    /\ nextId' = nextId + 1
    /\ UNCHANGED taskIdCounter

\* DryRunWrapper.getTask: this.client.getTask(id), in either mode
getTask(args) ==
    /\ Returned("getTask", args, ApiGetTask(remote, args.id), remote, <<"getTask">>)
    /\ UNCHANGED <<nextId, taskIdCounter>>

(***************************************************************************)
(* Calls on the returned client, in either mode, on an account of two      *)
(* tasks.                                                                  *)
(***************************************************************************)
DryRunAccount ==
    [i \in Ids |->
       IF i = 1 THEN Task(1, ContentOf(1), 0, FALSE)
       ELSE IF i = 2 THEN Task(2, ContentOf(2), 1, TRUE)
       ELSE NoTask]

TaskIdArgs == {[id |-> i] : i \in 1..MaxTasks}

NewContents == {<<"z">>, TxtCall}

InitDryRun ==
    /\ remote = DryRunAccount
    /\ nextId = 3
    /\ tasksCache = EmptyCache
    /\ subtaskCache = EmptyCache
    /\ now = 0
    /\ dryRun \in BOOLEAN
    /\ taskIdCounter = TaskIdCounterStart
    /\ calls = <<>>
    /\ result = NoResult
    /\ Untouched

ClientAddTask ==
    \E c \in NewContents, p \in 0..MaxTasks : addTask([content |-> c, parentId |-> p])

ClientUpdateTask ==
    \E a \in TaskIdArgs, c \in NewContents : updateTask([id |-> a.id, content |-> c])

ClientDeleteTask == \E a \in TaskIdArgs : deleteTask(a)

ClientCloseTask == \E a \in TaskIdArgs : closeTask(a)

ClientReopenTask == \E a \in TaskIdArgs : reopenTask(a)

ClientMoveTasks ==
    \E a \in TaskIdArgs : moveTasks([id |-> a.id, projectId |-> <<"w">>])

ClientQuickAddTask == \E c \in NewContents : quickAddTask([text |-> c])

ClientGetTask == \E a \in TaskIdArgs : getTask(a)

NextDryRun ==
    \/ ClientAddTask
    \/ ClientUpdateTask
    \/ ClientDeleteTask
    \/ ClientCloseTask
    \/ ClientReopenTask
    \/ ClientMoveTasks
    \/ ClientQuickAddTask
    \/ ClientGetTask

SpecDryRun == InitDryRun /\ [][NextDryRun]_vars

\* the methods of the underlying client that change the account
MutatingMethods ==
    {"addTask", "quickAddTask", "updateTask", "moveTasks", "deleteTask",
     "closeTask", "reopenTask"}

\* C9: while dry-run mode is on, no call on the returned client invokes a
\* creating, updating, moving, deleting, completing or reopening method of the
\* underlying client, and the account stays as it was.
C9_DryRunNeverMutates ==
    dryRun =>
        /\ \A i \in 1..Len(calls) : calls[i] \notin MutatingMethods
        /\ remote = DryRunAccount


(***************************************************************************)
(* Bulk operations of task-handlers.ts, with validateBulkSearchCriteria of *)
(* validation.ts and toApiPriority of priority-mapper.ts.  Search criteria *)
(* are project_id, priority and content_contains, each Undefined or        *)
(* Some(value); due_before and due_after are absent.                       *)
(***************************************************************************)
PRIORITY_MIN == 1
PRIORITY_MAX == 4

TxtProjectIdEmpty ==
    <<"P", "r", "o", "j", "e", "c", "t", " ", "I", "D", " ", "c", "a", "n",
      "n", "o", "t", " ", "b", "e", " ", "e", "m", "p", "t", "y">>
TxtPriorityRange ==
    <<"P", "r", "i", "o", "r", "i", "t", "y", " ", "m", "u", "s", "t", " ",
      "b", "e", " ", "a", "n", " ", "i", "n", "t", "e", "g", "e", "r", " ",
      "b", "e", "t", "w", "e", "e", "n", " ", "1", " ", "a", "n", "d", " ",
      "4">>
TxtContentContainsEmpty ==
    <<"c", "o", "n", "t", "e", "n", "t", "_", "c", "o", "n", "t", "a", "i",
      "n", "s", " ", "c", "a", "n", "n", "o", "t", " ", "b", "e", " ", "e",
      "m", "p", "t", "y", " ", "o", "r", " ", "c", "o", "n", "t", "a", "i",
      "n", " ", "o", "n", "l", "y", " ", "w", "h", "i", "t", "e", "s", "p",
      "a", "c", "e", ".", " ", "R", "e", "m", "o", "v", "e", " ", "t", "h",
      "i", "s", " ", "f", "i", "e", "l", "d", " ", "t", "o", " ", "m", "a",
      "t", "c", "h", " ", "a", "l", "l", " ", "t", "a", "s", "k", "s", ",",
      " ", "o", "r", " ", "p", "r", "o", "v", "i", "d", "e", " ", "s", "p",
      "e", "c", "i", "f", "i", "c", " ", "s", "e", "a", "r", "c", "h", " ",
      "t", "e", "x", "t", ".">>
TxtAtLeastOneCriterion ==
    <<"A", "t", " ", "l", "e", "a", "s", "t", " ", "o", "n", "e", " ", "v",
      "a", "l", "i", "d", " ", "s", "e", "a", "r", "c", "h", " ", "c", "r",
      "i", "t", "e", "r", "i", "o", "n", " ", "m", "u", "s", "t", " ", "b",
      "e", " ", "p", "r", "o", "v", "i", "d", "e", "d", " ", "f", "o", "r",
      " ", "b", "u", "l", "k", " ", "o", "p", "e", "r", "a", "t", "i", "o",
      "n", "s", ".", " ", "V", "a", "l", "i", "d", " ", "c", "r", "i", "t",
      "e", "r", "i", "a", ":", " ", "p", "r", "o", "j", "e", "c", "t", "_",
      "i", "d", ",", " ", "p", "r", "i", "o", "r", "i", "t", "y", ",", " ",
      "d", "u", "e", "_", "b", "e", "f", "o", "r", "e", ",", " ", "d", "u",
      "e", "_", "a", "f", "t", "e", "r", ",", " ", "o", "r", " ", "n", "o",
      "n", "-", "e", "m", "p", "t", "y", " ", "c", "o", "n", "t", "e", "n",
      "t", "_", "c", "o", "n", "t", "a", "i", "n", "s", ".">>
TxtBulkUpdateTasks ==
    <<"b", "u", "l", "k", " ", "u", "p", "d", "a", "t", "e", " ", "t", "a",
      "s", "k", "s">>
TxtBulkDeleteTasks ==
    <<"b", "u", "l", "k", " ", "d", "e", "l", "e", "t", "e", " ", "t", "a",
      "s", "k", "s">>
TxtBulkCompleteTasks ==
    <<"b", "u", "l", "k", " ", "c", "o", "m", "p", "l", "e", "t", "e", " ",
      "t", "a", "s", "k", "s">>

isValidPriority(value) ==
    value # Undefined /\ value[1] >= PRIORITY_MIN /\ value[1] <= PRIORITY_MAX

toApiPriority(priority) ==
    IF ~isValidPriority(priority) THEN Undefined
    ELSE Some(PRIORITY_MAX + PRIORITY_MIN - priority[1])

validateProjectId(projectId) ==
    IF projectId # Undefined /\ Len(trim(projectId[1])) = 0
    THEN Err(Thrown("ValidationError", TxtProjectIdEmpty))
    ELSE Ok(TRUE)

validatePriority(priority) ==
    IF priority # Undefined /\ (priority[1] < 1 \/ priority[1] > 4)
    THEN Err(Thrown("ValidationError", TxtPriorityRange))
    ELSE Ok(TRUE)

\* a validation that accepts every criteria object
validateNothing(criteria) == Ok(TRUE)

\* validateBulkSearchCriteria for plain-text content_contains
validateBulkSearchCriteria(criteria) ==
    LET hasValidCriteria ==
            \/ criteria.project_id # Undefined
            \/ criteria.priority # Undefined
            \/ /\ criteria.content_contains # Undefined
               /\ trim(criteria.content_contains[1]) # <<>>
    IN IF ~validateProjectId(criteria.project_id).ok
       THEN validateProjectId(criteria.project_id)
       ELSE IF ~validatePriority(criteria.priority).ok
       THEN validatePriority(criteria.priority)
       ELSE IF /\ criteria.content_contains # Undefined
               /\ trim(criteria.content_contains[1]) = <<>>
       THEN Err(Thrown("ValidationError", TxtContentContainsEmpty))
       ELSE IF ~hasValidCriteria
       THEN Err(Thrown("ValidationError", TxtAtLeastOneCriterion))
       ELSE Ok(TRUE)

\* the predicate of filterTasksByCriteria's tasks.filter
MatchesCriteria(task, criteria) ==
    LET apiPriorityFilter == toApiPriority(criteria.priority)
    IN /\ ~(/\ criteria.project_id # Undefined
            /\ criteria.project_id[1] # <<>>
            /\ task.projectId # criteria.project_id[1])
       /\ ~(apiPriorityFilter # Undefined /\ task.priority # apiPriorityFilter[1])
       /\ criteria.content_contains # Undefined =>
             /\ trim(criteria.content_contains[1]) # <<>>
             /\ includes(toLowerCase(task.content),
                         toLowerCase(trim(criteria.content_contains[1])))

filterTasksByCriteria(tasks, criteria) ==
    LET Keep(task) == MatchesCriteria(task, criteria) IN SelectSeq(tasks, Keep)

\* the account after the loop called client.<method> on each task of `tasks`
\* in turn; a call changes its own task only, and a failed call nothing
ApplyEach(r, tasks, Call(_, _)) ==
    [i \in DOMAIN r |->
       IF \E k \in 1..Len(tasks) : tasks[k].id = i /\ Call(r, i).ok
       THEN Call(r, i).val[i]
       ELSE r[i]]

\* ErrorHandler.handleAPIError(operation, error) of the handlers' catch,
\* tabulated over the bulk operations and the errors the validation throws
BulkRejection ==
    [operation \in {TxtBulkUpdateTasks, TxtBulkDeleteTasks, TxtBulkCompleteTasks},
     error \in {Thrown("ValidationError", m) :
                  m \in {TxtProjectIdEmpty, TxtPriorityRange,
                         TxtContentContainsEmpty, TxtAtLeastOneCriterion}}
     |-> handleAPIError(operation, error)]

\* the body shared in shape by handleBulkDeleteTasks and
\* handleBulkCompleteTasks: clear the cache, validate, fetch, filter, then
\* one call of `method` per matching task; `perTask` is the calls made for one task
BulkOutcome(operation, args, perTask, after) ==
    LET checked == validateBulkSearchCriteria(args.search_criteria)
        allTasks == extractArrayFromResponse(ApiGetTasks(remote)).items
        matchingTasks == filterTasksByCriteria(allTasks, args.search_criteria)
    IN IF ~checked.ok
       THEN [outcome |-> Err(BulkRejection[operation, checked.val]),
             remote |-> remote, calls |-> <<>>]
       ELSE IF Len(matchingTasks) = 0
       THEN [outcome |-> Ok([kind |-> "noMatch", tasks |-> <<>>,
                             searched |-> Len(allTasks)]),
             remote |-> remote, calls |-> <<"getTasks">>]
       ELSE [outcome |-> Ok([kind |-> "completed", tasks |-> matchingTasks,
                             searched |-> Len(allTasks)]),
             remote |-> after,
             calls |-> <<"getTasks">>
                       \o [i \in 1..(Len(matchingTasks) * Len(perTask)) |->
                             perTask[1]]]

BulkReturn(op, args, out) ==
    /\ tasksCache' = CacheClear(tasksCache)
    /\ remote' = out.remote
    /\ calls' = out.calls
    /\ result' = [op |-> op, args |-> args, outcome |-> out.outcome]
    /\ UNCHANGED <<nextId, subtaskCache, now, dryRun, lookups,
                   labelStatsCache, completedTaskCache, cache, written,
                   pending, taskIdCounter>>

handleBulkDeleteTasks(args) ==
    LET matchingTasks == filterTasksByCriteria(
                             extractArrayFromResponse(ApiGetTasks(remote)).items,
                             args.search_criteria)
    IN BulkReturn("bulkDeleteTasks", args,
                  BulkOutcome(TxtBulkDeleteTasks, args, <<"deleteTask">>,
                              ApplyEach(remote, matchingTasks, ApiDeleteTask)))

handleBulkCompleteTasks(args) ==
    LET matchingTasks == filterTasksByCriteria(
                             extractArrayFromResponse(ApiGetTasks(remote)).items,
                             args.search_criteria)
    IN BulkReturn("bulkCompleteTasks", args,
                  BulkOutcome(TxtBulkCompleteTasks, args, <<"closeTask">>,
                              ApplyEach(remote, matchingTasks, ApiCloseTask)))

\* handleBulkUpdateTasks with updates.content only (no labels, priority,
\* project or section): without a content nothing is sent for a matching task
handleBulkUpdateTasks(args) ==
    LET matchingTasks == filterTasksByCriteria(
                             extractArrayFromResponse(ApiGetTasks(remote)).items,
                             args.search_criteria)
        hasUpdateFields == args.updates.content # <<>>
        SetContent(r, id) == ApiUpdateTask(r, id, args.updates.content)
    IN BulkReturn("bulkUpdateTasks", args,
                  BulkOutcome(TxtBulkUpdateTasks, args,
                              IF hasUpdateFields THEN <<"updateTask">> ELSE <<>>,
                              IF hasUpdateFields
                              THEN ApplyEach(remote, matchingTasks, SetContent)
                              ELSE remote))

(***************************************************************************)
(* Bulk calls on every account of the bounds, with search criteria that    *)
(* are valid, invalid, blank or absent; a rejected call is followed by     *)
(* further calls, an accepted one ends the session.                        *)
(***************************************************************************)
TxtWork == <<"w", "o", "r", "k">>

SearchCriteria ==
    {[project_id |-> p, priority |-> q, content_contains |-> c] :
        p \in {Undefined, Some(TxtInbox)},
        q \in {Undefined, Some(4)},
        c \in {Undefined, Some(<<>>), Some(<<" ">>), Some(<<"p", "l", "a", "n">>)}}
    \cup {[project_id |-> Some(<<>>), priority |-> Undefined,
           content_contains |-> Undefined],
          [project_id |-> Undefined, priority |-> Some(5),
           content_contains |-> Undefined]}

\* a slot of the account: no task, a task of the inbox, a task of another
\* project with the highest API priority
SlotKinds == {"none", "inbox", "work"}

InitBulk ==
    /\ \E kind \in [Ids -> SlotKinds] :
          remote = [i \in Ids |->
                      IF kind[i] = "none" THEN NoTask
                      ELSE IF kind[i] = "inbox" THEN Task(i, ContentOf(i), 0, FALSE)
                      ELSE [Task(i, ContentOf(i), 0, FALSE)
                               EXCEPT !.projectId = TxtWork, !.priority = 4]]
    /\ nextId = MaxTasks + 1
    /\ tasksCache = EmptyCache
    /\ subtaskCache = EmptyCache
    /\ now = 0
    /\ dryRun = FALSE
    /\ taskIdCounter = TaskIdCounterStart
    /\ calls = <<>>
    /\ result = NoResult
    /\ Untouched

AwaitingBulkCall == IF result = NoResult THEN TRUE ELSE ~result.outcome.ok

BulkUpdateTasks ==
    \E criteria \in SearchCriteria, content \in {<<>>, <<"z">>} :
        /\ AwaitingBulkCall
        /\ handleBulkUpdateTasks([search_criteria |-> criteria,
                                  updates |-> [content |-> content]])

BulkDeleteTasks ==
    \E criteria \in SearchCriteria :
        /\ AwaitingBulkCall
        /\ handleBulkDeleteTasks([search_criteria |-> criteria])

BulkCompleteTasks ==
    \E criteria \in SearchCriteria :
        /\ AwaitingBulkCall
        /\ handleBulkCompleteTasks([search_criteria |-> criteria])

NextBulk == BulkUpdateTasks \/ BulkDeleteTasks \/ BulkCompleteTasks

SpecBulk == InitBulk /\ [][NextBulk]_vars

BulkOps == {"bulkUpdateTasks", "bulkDeleteTasks", "bulkCompleteTasks"}

BulkMutatingMethods == {"updateTask", "moveTasks", "deleteTask", "closeTask"}

\* no criterion at all, or a content_contains that is empty or only blanks
NoUsableCriteria(criteria) ==
    \/ /\ criteria.project_id = Undefined
       /\ criteria.priority = Undefined
       /\ criteria.content_contains = Undefined
    \/ /\ criteria.content_contains # Undefined
       /\ trim(criteria.content_contains[1]) = <<>>

\* C10: a bulk update, delete or complete whose search criteria hold no
\* criterion, or an empty or blank content_contains, is rejected and calls no
\* updateTask, moveTasks, deleteTask or closeTask of the client.
C10_BlankCriteriaMutateNothing ==
    (result.op \in BulkOps /\ NoUsableCriteria(result.args.search_criteria)) =>
        /\ ~result.outcome.ok
        /\ \A i \in 1..Len(calls) : calls[i] \notin BulkMutatingMethods

\* a blank content_contains, and one with no criteria, each rejected while
\* the account still holds tasks
C10_Witness ==
    /\ result.op = "bulkDeleteTasks"
    /\ result.args.search_criteria.content_contains = Some(<<" ">>)
    /\ result.args.search_criteria.project_id = Some(TxtInbox)
    /\ Len(Listing(remote)) = MaxTasks
    /\ ~result.outcome.ok


(***************************************************************************)
(* Properties of the hierarchy query                                       *)
(***************************************************************************)
HierarchyReturned == result.op = "getTaskHierarchy" /\ result.outcome.ok

RECURSIVE NodesOf(_)
NodesOf(node) ==
    {node} \cup UNION {NodesOf(node.children[i]) : i \in 1..Len(node.children)}

ReturnedNodes == NodesOf(result.outcome.val.root)

RECURSIVE SumOver(_, _)
SumOver(nodes, field) ==
    IF nodes = <<>> THEN 0 ELSE nodes[1][field] + SumOver(Tail(nodes), field)

RECURSIVE CountOriginal(_)
CountOriginal(node) ==
    (IF node.isOriginalTask THEN 1 ELSE 0)
    + SumOver([i \in 1..Len(node.children) |->
                 [n |-> CountOriginal(node.children[i])]], "n")

\* the request names a task of the fetched set, by id or by name
RequestResolves(args) ==
    \/ args.task_id \in Ids /\ IsTask(remote[args.task_id])
    \/ /\ args.task_id = 0
       /\ args.task_name # <<>>
       /\ \E i \in Ids :
             /\ IsTask(remote[i])
             /\ includes(toLowerCase(remote[i].content), toLowerCase(args.task_name))

\* the request names a task, by id or by name, and no task of the set answers
RequestUnresolvable(args) ==
    /\ args.task_id # 0 \/ args.task_name # <<>>
    /\ ~RequestResolves(args)

\* C2: in every returned hierarchy, every node's totalTasks is 1 plus the sum
\* of its children's totalTasks, which is the number of nodes of its subtree.
C2_TotalTasksIsSubtreeSize ==
    HierarchyReturned =>
        \A n \in ReturnedNodes :
            /\ n.totalTasks = 1 + SumOver(n.children, "totalTasks")
            /\ n.totalTasks = Cardinality(NodesOf(n))

\* C3: in every returned hierarchy, every node's completedTasks is its own
\* completion (1 or 0) plus the sum of its children's completedTasks, which is
\* the number of completed tasks of its subtree, each counted once.
C3_CompletedTasksCountedOnce ==
    HierarchyReturned =>
        \A n \in ReturnedNodes :
            /\ n.completedTasks = (IF n.task.isCompleted THEN 1 ELSE 0)
                                  + SumOver(n.children, "completedTasks")
            /\ n.completedTasks =
                   Cardinality({m \in NodesOf(n) : m.task.isCompleted})

\* C4: every returned node that has a child carries the percentage
\* round(100 * completedTasks / totalTasks) of its own subtree counts.
C4_PercentageFromOwnCounts ==
    HierarchyReturned =>
        \A n \in ReturnedNodes :
            n.children # <<>> =>
                n.completionPercentage = RoundPercent(n.completedTasks, n.totalTasks)

\* C5: a query whose task resolves returns a hierarchy and raises no error,
\* whatever the parent links of the fetched set are, cycles included.
C5_ResolvableQueryReturns ==
    (result.op = "getTaskHierarchy" /\ RequestResolves(result.args))
        => result.outcome.ok

\* C6: every returned hierarchy has exactly one node with isOriginalTask, and
\* that node's task id is originalTaskId.
C6_ExactlyOneOriginalNode ==
    HierarchyReturned =>
        /\ CountOriginal(result.outcome.val.root) = 1
        /\ \A n \in ReturnedNodes :
              n.isOriginalTask => n.task.id = result.outcome.val.originalTaskId

\* C7: a query whose task cannot be resolved, by id or by name, fails with
\* TaskNotFoundError and with no other error kind.
C7_NotFoundReachesCaller ==
    (result.op = "getTaskHierarchy" /\ RequestUnresolvable(result.args))
        => /\ ~result.outcome.ok
           /\ result.outcome.val.kind = "TaskNotFoundError"

\* C8: with include_completed false, every node below the root of the returned
\* tree is an incomplete task of the fetched set hanging under its own parent,
\* so no completed task is a non-root node and nothing hangs below one.
C8_CompletedSubtreesPruned ==
    (HierarchyReturned /\ ~result.args.include_completed) =>
        \A n \in ReturnedNodes :
            \A i \in 1..Len(n.children) :
                LET c == n.children[i].task
                IN /\ ~c.isCompleted
                   /\ c.parentId = n.task.id
                   /\ c.id \in Ids
                   /\ remote[c.id] = c

\* a completed child of the root with an incomplete child of its own, neither
\* of them in the tree returned with include_completed false
C8_Witness ==
    /\ HierarchyReturned
    /\ ~result.args.include_completed
    /\ \E c \in Ids, g \in Ids :
          /\ IsTask(remote[c]) /\ IsTask(remote[g])
          /\ remote[c].isCompleted
          /\ remote[c].parentId = result.outcome.val.root.task.id
          /\ c # result.outcome.val.root.task.id
          /\ remote[g].parentId = c
          /\ ~remote[g].isCompleted
          /\ \A n \in ReturnedNodes : n.task.id \notin {c, g}


(***************************************************************************)
(* handleUpdateTask (task-handlers.ts) for a request that changes the      *)
(* content, and single calls of the three handlers that take task_id and   *)
(* task_name, on every account of tasks without parents.                   *)
(***************************************************************************)
handleUpdateTask(args) ==
    LET checked == validateTaskIdentifier(args.task_id, args.task_name)
        matchingTask == findTaskByIdOrName(args, remote)
        updated == ApiUpdateTask(remote, matchingTask.val.id, args.content)
        sent == args.content # <<>>
    IN /\ tasksCache' = IF checked.ok THEN CacheClear(tasksCache) ELSE tasksCache
       /\ remote' = IF checked.ok /\ matchingTask.ok /\ sent /\ updated.ok
                    THEN updated.val ELSE remote
       /\ result' = [op |-> "updateTask", args |-> args,
                     outcome |-> IF ~checked.ok THEN checked
                                 ELSE IF ~matchingTask.ok THEN matchingTask
                                 ELSE IF ~sent THEN matchingTask
                                 ELSE IF ~updated.ok THEN updated
                                 ELSE Ok(updated.val[matchingTask.val.id])]
       /\ calls' = IF ~checked.ok THEN <<>>
                   ELSE IF ~matchingTask.ok \/ ~sent THEN LookupCalls(args, remote)
                   ELSE Append(LookupCalls(args, remote), "updateTask")
       /\ UNCHANGED <<nextId, subtaskCache, now, dryRun, lookups,
                      labelStatsCache, completedTaskCache, cache, written,
                      pending, taskIdCounter>>

TaskRefs ==
    {[task_id |-> i, task_name |-> n] :
        i \in 0..MaxTasks, n \in {<<>>, <<"p", "l", "a", "n">>, <<"z">>}}

InitIdentify ==
    /\ \E present \in [Ids -> BOOLEAN] :
          remote = [i \in Ids |->
                      IF present[i] THEN Task(i, ContentOf(i), 0, FALSE) ELSE NoTask]
    /\ nextId = MaxTasks + 1
    /\ tasksCache = EmptyCache
    /\ subtaskCache = EmptyCache
    /\ now = 0
    /\ dryRun = FALSE
    /\ taskIdCounter = TaskIdCounterStart
    /\ calls = <<>>
    /\ result = NoResult
    /\ Untouched

IdentifiedUpdate ==
    \E ref \in TaskRefs, c \in {<<>>, <<"z">>} :
        /\ result = NoResult
        /\ handleUpdateTask([task_id |-> ref.task_id, task_name |-> ref.task_name,
                             content |-> c])

IdentifiedDelete == \E ref \in TaskRefs : result = NoResult /\ handleDeleteTask(ref)

IdentifiedComplete == \E ref \in TaskRefs : result = NoResult /\ handleCompleteTask(ref)

NextIdentify == IdentifiedUpdate \/ IdentifiedDelete \/ IdentifiedComplete

SpecIdentify == InitIdentify /\ [][NextIdentify]_vars

\* C11: a call of handleUpdateTask, handleDeleteTask or handleCompleteTask that
\* carries a task_id leaves every task with another id as it was: task_name is
\* not used when task_id is provided.
C11_TaskIdTakesPrecedence ==
    [][result'.args.task_id # 0 =>
          \A i \in Ids : i # result'.args.task_id => remote'[i] = remote[i]]_vars


(***************************************************************************)
(* The CallTool callback of index.ts, an async function: an invocation     *)
(* runs until it awaits a call of the client, is suspended in `pending`    *)
(* until the remote service has replied, and then runs on to its next      *)
(* await or to its return.  The callback and the handlers hold no lock and *)
(* no queue, so a request that arrives meanwhile starts its own invocation.*)
(* handleGetTasks (the listing path) and handleDeleteTask are followed     *)
(* await by await.                                                         *)
(***************************************************************************)
MaxInFlight == 2

\* an invocation suspended at `await client.<method>(...)`
Awaiting(op, args, method, id, limit, task) ==
    [op |-> op, args |-> args, method |-> method, id |-> id, limit |-> limit,
     task |-> task, reply |-> Undefined]

\* the remote service answers the awaited call of one suspended invocation
RemoteReplies ==
    \E i \in 1..Len(pending) :
        LET call == pending[i]
            deleted == ApiDeleteTask(remote, call.id)
            reply == IF call.method = "getTask" THEN ApiGetTask(remote, call.id)
                     ELSE IF call.method = "getTasks"
                     THEN Ok(ApiGetTasksWith(remote, call.limit))
                     ELSE IF deleted.ok THEN Ok(TRUE) ELSE deleted
        IN /\ call.reply = Undefined
           /\ pending' = [pending EXCEPT ![i].reply = Some(reply)]
           /\ remote' = IF call.method = "deleteTask" /\ deleted.ok
                        THEN deleted.val ELSE remote
           /\ UNCHANGED <<nextId, tasksCache, subtaskCache, now, dryRun,
                          lookups, labelStatsCache, completedTaskCache,
                          taskIdCounter, calls, result, cache, written>>

\* case "todoist_task_get": handleGetTasks up to `await todoistClient.getTasks`
CallToolGetTasks ==
    \E args \in GetTasksArgs :
        LET checked == validateLimit(args.limit)
            apiLimit == IF args.limit # Undefined /\ args.limit[1] > 0
                        THEN args.limit ELSE Undefined
            got == CacheGet(tasksCache, TasksCacheConfig,
                            createCacheKey("tasks", apiLimit), now)
            served == GetTasksOutcome(tasksCache, args, remote, now)
        IN /\ Len(pending) < MaxInFlight
           /\ tasksCache.hitCount + tasksCache.missCount < MaxLookups
           /\ IF checked.ok /\ got.value = Undefined
              THEN /\ pending' = Append(pending,
                                        Awaiting("getTasks", args, "getTasks", 0,
                                                 apiLimit, NoTask))
                   /\ tasksCache' = got.cache
                   /\ UNCHANGED <<result, calls>>
              ELSE /\ result' = [op |-> "getTasks", args |-> args, outcome |-> served.res]
                   /\ tasksCache' = served.cache
                   /\ calls' = <<>>
                   /\ UNCHANGED pending
           /\ UNCHANGED <<remote, nextId, subtaskCache, now, dryRun, lookups,
                          labelStatsCache, completedTaskCache, taskIdCounter,
                          cache, written>>

\* handleGetTasks from the reply of getTasks on: taskCache.set, the task_name
\* filter, the limit
ResumeGetTasks ==
    \E i \in 1..Len(pending) :
        LET call == pending[i]
            tasks == extractArrayFromResponse(call.reply[1].val).items
            searchTerm == toLowerCase(call.args.task_name)
            Matches(x) == includes(toLowerCase(x.content), searchTerm)
            named == IF call.args.task_name # <<>> THEN SelectSeq(tasks, Matches)
                     ELSE tasks
            limited == IF call.args.limit # Undefined /\ call.args.limit[1] > 0
                       THEN SubSeq(named, 1, IF call.args.limit[1] < Len(named)
                                             THEN call.args.limit[1] ELSE Len(named))
                       ELSE named
        IN /\ call.op = "getTasks"
           /\ call.reply # Undefined
           /\ tasksCache' = CacheSet(tasksCache, TasksCacheConfig,
                                     createCacheKey("tasks", call.limit), tasks,
                                     Undefined, now)
           /\ result' = [op |-> "getTasks", args |-> call.args,
                         outcome |-> Ok([kind |-> "list", tasks |-> limited])]
           /\ calls' = <<"getTasks">>
           /\ pending' = RemoveAt(pending, i)
           /\ UNCHANGED <<remote, nextId, subtaskCache, now, dryRun, lookups,
                          labelStatsCache, completedTaskCache, taskIdCounter,
                          cache, written>>

\* case "todoist_task_delete": handleDeleteTask up to the first await of
\* findTaskByIdOrName
CallToolDeleteTask ==
    \E args \in {ById, ByName} :
        /\ Len(pending) < MaxInFlight
        /\ validateTaskIdentifier(args.task_id, args.task_name).ok
        /\ tasksCache' = CacheClear(tasksCache)
        /\ pending' = Append(pending,
                             IF args.task_id # 0
                             THEN Awaiting("deleteTask", args, "getTask", args.task_id,
                                           Undefined, NoTask)
                             ELSE Awaiting("deleteTask", args, "getTasks", 0,
                                           Undefined, NoTask))
        /\ UNCHANGED <<remote, nextId, subtaskCache, now, dryRun, lookups,
                       labelStatsCache, completedTaskCache, taskIdCounter,
                       calls, result, cache, written>>

\* handleDeleteTask from a reply on: the rest of findTaskByIdOrName, then
\* `await todoistClient.deleteTask(matchingTask.id)`, then the return
ResumeDeleteTask ==
    \E i \in 1..Len(pending) :
        LET call == pending[i]
            reply == call.reply[1]
            searchTerm == toLowerCase(call.args.task_name)
            Matches(x) == includes(toLowerCase(x.content), searchTerm)
            matchingTask == Find(extractArrayFromResponse(reply.val).items, Matches)
            Delete(task) == [next |-> Some(Awaiting("deleteTask", call.args, "deleteTask",
                                                    task.id, Undefined, task)),
                             outcome |-> Ok(task)]
            Return(outcome) == [next |-> Undefined, outcome |-> outcome]
            step ==
                IF call.method = "getTask"
                THEN IF reply.ok THEN Delete(reply.val)
                     ELSE IF call.args.task_name = <<>>
                     THEN Return(Err(handleTaskNotFound(
                                        TxtIdPrefix \o IdText(call.args.task_id))))
                     ELSE [next |-> Some(Awaiting("deleteTask", call.args, "getTasks", 0,
                                                  Undefined, NoTask)),
                           outcome |-> Ok(NoTask)]
                ELSE IF call.method = "getTasks"
                THEN IF matchingTask # Undefined THEN Delete(matchingTask[1])
                     ELSE Return(Err(handleTaskNotFound(call.args.task_name)))
                ELSE Return(IF reply.ok THEN Ok(call.task) ELSE reply)
        IN /\ call.op = "deleteTask"
           /\ call.reply # Undefined
           /\ IF step.next # Undefined
              THEN /\ pending' = [pending EXCEPT ![i] = step.next[1]]
                   /\ UNCHANGED <<result, calls>>
              ELSE /\ pending' = RemoveAt(pending, i)
                   /\ result' = [op |-> "deleteTask", args |-> call.args,
                                 outcome |-> step.outcome]
                   /\ calls' = <<call.method>>
           /\ UNCHANGED <<remote, nextId, tasksCache, subtaskCache, now,
                          dryRun, lookups, labelStatsCache,
                          completedTaskCache, taskIdCounter, cache, written>>

InitInterleave ==
    /\ remote = [i \in Ids |->
                   IF i = 1 THEN Task(1, ContentOf(1), 0, FALSE)
                   ELSE IF i = 2 THEN Task(2, ContentOf(2), 1, FALSE)
                   ELSE NoTask]
    /\ nextId = 3
    /\ tasksCache = EmptyCache
    /\ subtaskCache = EmptyCache
    /\ now = 0
    /\ dryRun = FALSE
    /\ taskIdCounter = TaskIdCounterStart
    /\ calls = <<>>
    /\ result = NoResult
    /\ Untouched

NextInterleave ==
    \/ CallToolGetTasks
    \/ CallToolDeleteTask
    \/ RemoteReplies
    \/ ResumeGetTasks
    \/ ResumeDeleteTask

SpecInterleave == InitInterleave /\ [][NextInterleave]_vars

\* C12: each tool invocation runs to completion before the next one is
\* processed: at no time is more than one handler execution under way, so no
\* invocation starts while another is suspended at an await.
C12_InvocationsRunToCompletion == Len(pending) <= 1


(***************************************************************************)
(* A SimpleCache used directly: any sequence of its public operations with *)
(* the clock advancing in between, on an instance without a size limit, or *)
(* on one with maxSize.  `written` remembers, per key, the last set that   *)
(* no delete or clear has removed since.                                   *)
(***************************************************************************)
MaxSize == 1

\* new SimpleCache(defaultTtlMs, config)
NewSimpleCache(defaultTtlMs, config) ==
    EmptyCache @@
    [config |-> config @@ [defaultTtl |-> defaultTtlMs, maxSize |-> 0,
                           enableStats |-> TRUE, enableAccessTracking |-> TRUE]]

\* a ttl of 0, and one that a single clock step reaches exactly
Ttls == {Some(0), Some(TickStep)}

\* the state when `instance` has just been constructed
Constructed(instance) ==
    /\ remote = [i \in Ids |-> NoTask]
    /\ nextId = 1
    /\ tasksCache = EmptyCache
    /\ subtaskCache = EmptyCache
    /\ now = 0
    /\ dryRun = FALSE
    /\ taskIdCounter = TaskIdCounterStart
    /\ calls = <<>>
    /\ result = NoResult
    /\ cache = instance
    /\ written = NoWrites
    /\ pending = <<>>
    /\ lookups = NoLookups
    /\ labelStatsCache = EmptyCache
    /\ completedTaskCache = EmptyCache

InitSimpleCache == Constructed(NewSimpleCache(DefaultTtl, <<>>))

InitBoundedCache == Constructed(NewSimpleCache(DefaultTtl, [maxSize |-> MaxSize]))

\* what a call on the cache leaves behind; `out` holds what it returned:
\* value (get), found (has, delete), count (size), keys (keys), or nothing
CacheCall(op, key, out, after, record) ==
    /\ result' = [op |-> op, key |-> key] @@ out
    /\ cache' = after
    /\ written' = record
    /\ lookups' = IF op = "get" THEN [lookups EXCEPT !.gets = @ + 1]
                  ELSE IF op = "resetStats"
                  THEN [gets |-> 0, resets |-> lookups.resets + 1]
                  ELSE lookups
    /\ UNCHANGED <<remote, nextId, tasksCache, subtaskCache, now, dryRun,
                    labelStatsCache, completedTaskCache, taskIdCounter, calls,
                    pending>>

Nothing == [returned |-> FALSE]

SetEntry ==
    \E key \in Keys, data \in 1..2, ttl \in Ttls :
        CacheCall("set", key, Nothing,
                  CacheSet(cache, cache.config, key, data, ttl, now),
                  [written EXCEPT ![key] =
                      Some([data |-> data, timestamp |-> now,
                            ttl |-> IF ttl = Undefined THEN cache.config.defaultTtl
                                    ELSE ttl[1]])])

GetEntry ==
    \E key \in Keys :
        LET got == CacheGet(cache, cache.config, key, now)
        IN /\ cache.hitCount + cache.missCount < MaxLookups
           /\ CacheCall("get", key, [value |-> got.value], got.cache, written)

\* has(key): an expired entry is deleted, the counters are left alone
HasEntry ==
    \E key \in Keys :
        LET i == CacheIndex(cache, key)
        IN IF i = 0 THEN CacheCall("has", key, [found |-> FALSE], cache, written)
           ELSE IF isExpired(cache.entries[i], now)
           THEN CacheCall("has", key, [found |-> FALSE],
                          [cache EXCEPT !.entries = RemoveAt(cache.entries, i)], written)
           ELSE CacheCall("has", key, [found |-> TRUE], cache, written)

\* delete(key): Map.delete, true when the Map held the key
DeleteEntry ==
    \E key \in Keys :
        LET i == CacheIndex(cache, key)
        IN CacheCall("delete", key, [found |-> i # 0],
                     IF i = 0 THEN cache
                     ELSE [cache EXCEPT !.entries = RemoveAt(cache.entries, i)],
                     [written EXCEPT ![key] = Undefined])

ClearEntries == CacheCall("clear", "", Nothing, CacheClear(cache), NoWrites)

\* cleanup(), and keys(), which runs cleanup() first
CleanupEntries ==
    \E op \in {"cleanup", "keys"} :
        LET Live(entry) == ~isExpired(entry, now)
            kept == SelectSeq(cache.entries, Live)
        IN CacheCall(op, "",
                     IF op = "keys" THEN [keys |-> [i \in 1..Len(kept) |-> kept[i].key]]
                     ELSE Nothing,
                     [cache EXCEPT !.entries = kept], written)

\* size(), and totalKeys of getStats(): this.cache.size
ReadSize == CacheCall("size", "", [count |-> Len(cache.entries)], cache, written)

NextSimpleCache ==
    \/ Tick
    \/ SetEntry
    \/ GetEntry
    \/ HasEntry
    \/ DeleteEntry
    \/ ClearEntries
    \/ CleanupEntries
    \/ ReadSize

SpecSimpleCache == InitSimpleCache /\ [][NextSimpleCache]_vars

SpecBoundedCache == InitBoundedCache /\ [][NextSimpleCache]_vars

\* the last set of `key` that no delete or clear removed is still within its
\* ttl at time t
Valid(key, t) ==
    written[key] # Undefined /\ t - written[key][1].timestamp <= written[key][1].ttl

\* C13: on a SimpleCache without a size limit, get(key) returns the value of
\* the most recent set(key, value, ttl) exactly when no later delete or clear
\* removed it and now - timestamp <= ttl; otherwise it returns absent.
C13_GetReturnsLastValidSet ==
    [][(now' = now /\ result'.op = "get" /\ cache.config.maxSize = 0) =>
          result'.value = IF Valid(result'.key, now)
                          THEN Some(written[result'.key][1].data)
                          ELSE Undefined]_vars

\* both cases of C13 have happened on one key: a set value was returned, and
\* later, past its ttl, absent was returned although nothing removed it
C13_Witness ==
    /\ cache.config.maxSize = 0
    /\ result.op = "get"
    /\ result.value = Undefined
    /\ written[result.key] # Undefined
    /\ cache.hitCount > 0

\* C14: after set(key, value, ttl) with ttl <= 0 the entry is never served: a
\* get(key) returns absent and a has(key) returns false, also at the clock
\* reading of the set.
C14_NonPositiveTtlNeverServed ==
    [][(/\ now' = now
        /\ result'.op \in {"get", "has"}
        /\ written[result'.key] # Undefined
        /\ written[result'.key][1].ttl <= 0) =>
          IF result'.op = "get" THEN result'.value = Undefined
          ELSE ~result'.found]_vars

\* C15: a SimpleCache configured with maxSize never holds more than maxSize
\* entries.
C15_SizeNeverExceedsMaxSize == Len(cache.entries) <= cache.config.maxSize

\* the Map holds an entry for `key` that is past its ttl
ExpiredUnpurged(key) ==
    \E i \in 1..Len(cache.entries) :
        cache.entries[i].key = key /\ isExpired(cache.entries[i], now)

LiveKeys ==
    {cache.entries[i].key :
        i \in {j \in 1..Len(cache.entries) : ~isExpired(cache.entries[j], now)}}

\* C16: an expired entry that is still in the Map shows through no public
\* operation: for its key get returns absent, has false and delete false, and
\* size, keys and getStats().totalKeys count only the entries not expired.
C16_ExpiredEntryLooksAbsent ==
    [][now' = now =>
          /\ (result'.op = "get" /\ ExpiredUnpurged(result'.key)) =>
                result'.value = Undefined
          /\ (result'.op \in {"has", "delete"} /\ ExpiredUnpurged(result'.key)) =>
                ~result'.found
          /\ result'.op = "size" => result'.count = Cardinality(LiveKeys)
          /\ result'.op = "keys" =>
                {result'.keys[i] : i \in 1..Len(result'.keys)} = LiveKeys]_vars


(***************************************************************************)
(* extractArrayFromResponse applied to one response: arrays, null,         *)
(* undefined, numbers, strings, and objects whose `results` and `data`     *)
(* are absent or hold any such value.                                      *)
(***************************************************************************)
PropertyValues ==
    {JsUndefined, [shape |-> "null"], [shape |-> "number", num |-> 0],
     [shape |-> "number", num |-> 5], [shape |-> "string", str |-> <<>>],
     [shape |-> "string", str |-> <<"x">>], JsArray(<<>>), JsArray(<<1>>),
     JsArray(<<1, 2>>), JsObject(JsUndefined, JsUndefined)}

Responses ==
    PropertyValues \cup {JsObject(r, d) : r \in PropertyValues, d \in PropertyValues}

InitExtract ==
    /\ remote = [i \in Ids |-> NoTask]
    /\ nextId = 1
    /\ tasksCache = EmptyCache
    /\ subtaskCache = EmptyCache
    /\ now = 0
    /\ dryRun = FALSE
    /\ taskIdCounter = TaskIdCounterStart
    /\ calls = <<>>
    /\ result \in {[op |-> "response", args |-> v] : v \in Responses}
    /\ Untouched

ExtractArray ==
    /\ result.op = "response"
    /\ result' = [op |-> "extractArrayFromResponse", args |-> result.args,
                  outcome |-> Ok(extractArrayFromResponse(result.args))]
    /\ UNCHANGED <<remote, nextId, tasksCache, subtaskCache, now, dryRun,
                   lookups, labelStatsCache, completedTaskCache,
                   taskIdCounter, calls, cache, written, pending>>

NextExtract == ExtractArray

SpecExtract == InitExtract /\ [][NextExtract]_vars

IsArray(v) == v.shape = "array"

\* C19: extractArrayFromResponse returns an array for every input: the input
\* when it is an array, otherwise its `results` when that is an array,
\* otherwise its `data` when that is an array, and otherwise an empty array.
C19_ExtractAlwaysReturnsArray ==
    result.op = "extractArrayFromResponse" =>
        LET v == result.args
            isObject == v.shape = "object"
        IN result.outcome.val =
              IF IsArray(v) THEN v
              ELSE IF isObject /\ IsArray(v.results) THEN v.results
              ELSE IF isObject /\ IsArray(v.data) THEN v.data
              ELSE JsArray(<<>>)


(***************************************************************************)
(* Further properties of handleGetTaskHierarchy and handleGetTasks.        *)
(***************************************************************************)
\* the number of client.getTasks calls the last invocation made
FullSetFetches ==
    LET IsGetTasks(method) == method = "getTasks"
    IN Len(SelectSeq(calls, IsGetTasks))

\* C17: a hierarchy query reads the full task set through the TTL cache: it
\* fetches it remotely at most once, and not at all when the module's cache
\* served a valid entry for the full task set during the query.
C17_HierarchyReadsThroughCache ==
    result.op = "getTaskHierarchy" =>
        /\ FullSetFetches <= 1
        /\ subtaskCache.hitCount > 0 => FullSetFetches = 0

\* C18: handleGetTasks with task_name and limit N returns the first
\* min(N, m) of the m tasks of the account whose content contains the name,
\* wherever they are in the remote listing.
C18_LimitAppliedAfterFiltering ==
    (/\ result.op = "getTasks"
     /\ result.outcome.ok
     /\ result.outcome.val.kind = "list"
     /\ result.args.task_name # <<>>
     /\ result.args.limit # Undefined) =>
        LET searchTerm == toLowerCase(result.args.task_name)
            Matches(x) == includes(toLowerCase(x.content), searchTerm)
            matching == SelectSeq(Listing(remote), Matches)
            n == result.args.limit[1]
        IN result.outcome.val.tasks =
              SubSeq(matching, 1, IF n < Len(matching) THEN n ELSE Len(matching))

\* C20: at every node of a returned hierarchy, and in the hierarchy's own
\* totals, 0 <= completedTasks <= totalTasks.
C20_CompletedWithinTotal ==
    HierarchyReturned =>
        /\ 0 <= result.outcome.val.completedTasks
        /\ result.outcome.val.completedTasks <= result.outcome.val.totalTasks
        /\ \A n \in ReturnedNodes :
              0 <= n.completedTasks /\ n.completedTasks <= n.totalTasks

\* a hierarchy was returned in which every task is completed and the root has
\* a child with a child of its own
C20_Witness ==
    /\ HierarchyReturned
    /\ \A n \in ReturnedNodes : n.task.isCompleted
    /\ \E n \in ReturnedNodes : n.depth = 2

\* C21: in every returned hierarchy, completionPercentage at every node and
\* overallCompletion are integers from 0 to 100, and every node's totalTasks
\* is at least 1, so that no percentage divides by zero.
C21_PercentagesWithinRange ==
    HierarchyReturned =>
        /\ result.outcome.val.overallCompletion \in 0..100
        /\ result.outcome.val.totalTasks >= 1
        /\ \A n \in ReturnedNodes :
              /\ n.completionPercentage \in 0..100
              /\ n.totalTasks >= 1

\* a hierarchy was returned whose root has children and the percentage 100,
\* while the overall completion lies strictly between 0 and 100
C21_Witness ==
    /\ HierarchyReturned
    /\ result.outcome.val.root.children # <<>>
    /\ result.outcome.val.root.completionPercentage = 100
    /\ result.outcome.val.overallCompletion \in 1..99

\* the parent link of task `id` leads to a task of the fetched set
HasParentInSet(id) ==
    /\ remote[id].parentId \in Ids
    /\ IsTask(remote[remote[id].parentId])

\* the ids met from `id` on following at most n parent links through tasks of
\* the fetched set
RECURSIVE Ancestry(_, _)
Ancestry(id, n) ==
    IF n = 0 \/ ~HasParentInSet(id) THEN {id}
    ELSE {id} \cup Ancestry(remote[id].parentId, n - 1)

\* C22 as stated: the root of a returned tree is a task of the fetched set
\* that the parent links lead to from the requested task, and it has no
\* parentId or a parentId that is not in the set; a requested task with a
\* dangling parentId is itself the root.
C22_RootIsTopmostAncestor ==
    HierarchyReturned =>
        LET root == result.outcome.val.root.task
            requested == result.outcome.val.originalTaskId
        IN /\ root.id \in Ids
           /\ remote[root.id] = root
           /\ root.id \in Ancestry(requested, MaxTasks)
           /\ ~HasParentInSet(root.id)
           /\ ~HasParentInSet(requested) => root.id = requested

\* the task k parent links above `id` (the walk stays where no link leads on)
RECURSIVE Up(_, _)
Up(id, k) ==
    IF k = 0 \/ ~HasParentInSet(id) THEN id ELSE Up(remote[id].parentId, k - 1)

\* the parent links from `id` lead back to `id`
OnLoop(id) == HasParentInSet(id) /\ id \in Ancestry(remote[id].parentId, MaxTasks)

\* where the upward walk from `id` ends: the first task met that has no parent
\* in the fetched set or lies on a loop of parent links
WalkEnd(id) ==
    LET Ends(k) == ~HasParentInSet(Up(id, k)) \/ OnLoop(Up(id, k))
    IN Up(id, CHOOSE k \in 0..MaxTasks : Ends(k) /\ \A j \in 0..(k - 1) : ~Ends(j))

\* C22, amended: the root of a returned tree is the task reached from the
\* requested task by following parentId links through tasks of the fetched
\* set until a task with no parentId, with a parentId that is not in the set,
\* or on a loop of parent links is reached; a requested task whose parentId is
\* dangling is itself the root.
C22_RootIsWalkEnd ==
    HierarchyReturned =>
        LET root == result.outcome.val.root.task
            requested == result.outcome.val.originalTaskId
        IN /\ root.id \in Ids
           /\ remote[root.id] = root
           /\ root.id = WalkEnd(requested)
           /\ ~HasParentInSet(requested) => root.id = requested

\* a tree was returned whose root is a proper ancestor of the requested task
\* and has itself a parentId that is not in the fetched set
C22_Witness ==
    /\ HierarchyReturned
    /\ result.outcome.val.root.task.id # result.outcome.val.originalTaskId
    /\ result.outcome.val.root.task.parentId # 0

(***************************************************************************)
(* The statistics of a SimpleCache with enableStats at its default (true): *)
(* sets, gets, has and deletes on two keys with the clock advancing, and   *)
(* resetStats.  `lookups` counts the get calls since the last resetStats.  *)
(***************************************************************************)
MaxResets == 1

\* resetStats()
ResetStats ==
    /\ lookups.resets < MaxResets
    /\ CacheCall("resetStats", "", Nothing,
                 [cache EXCEPT !.hitCount = 0, !.missCount = 0], written)

\* for the counters the value stored does not matter, the ttl does
SetForStats ==
    \E key \in Keys, ttl \in {Undefined, Some(0)} :
        CacheCall("set", key, Nothing,
                  CacheSet(cache, cache.config, key, 1, ttl, now),
                  [written EXCEPT ![key] =
                      Some([data |-> 1, timestamp |-> now,
                            ttl |-> IF ttl = Undefined THEN cache.config.defaultTtl
                                    ELSE ttl[1]])])

NextStats ==
    \/ Tick
    \/ SetForStats
    \/ GetEntry
    \/ HasEntry
    \/ DeleteEntry
    \/ ResetStats

SpecStats == InitSimpleCache /\ [][NextStats]_vars

\* C23: with statistics enabled every get increments exactly one of the two
\* counters, hitCount exactly when it returns a value and missCount otherwise,
\* has changes neither, and hitCount + missCount is the number of get calls
\* since the last resetStats.
C23_EveryGetCountedOnce ==
    [][now' = now =>
          /\ result'.op = "get" =>
                IF result'.value # Undefined
                THEN /\ cache'.hitCount = cache.hitCount + 1
                     /\ cache'.missCount = cache.missCount
                ELSE /\ cache'.hitCount = cache.hitCount
                     /\ cache'.missCount = cache.missCount + 1
          /\ result'.op = "has" =>
                /\ cache'.hitCount = cache.hitCount
                /\ cache'.missCount = cache.missCount
          /\ cache'.hitCount + cache'.missCount = lookups'.gets]_vars

\* after a resetStats, a get has missed on an expired entry and another get
\* has returned a value
C23_Witness ==
    /\ lookups.resets > 0
    /\ cache.hitCount > 0
    /\ cache.missCount > 0
    /\ result.op = "get"
    /\ result.value = Undefined
    /\ written[result.key] # Undefined

(***************************************************************************)
(* Staleness of the "tasks" cache when handleGetTasks and handleDeleteTask *)
(* interleave at their awaits.                                             *)
(***************************************************************************)
\* the task lists the "tasks" cache holds
CachedLists == {tasksCache.entries[i].data : i \in 1..Len(tasksCache.entries)}

\* C24: when a handleDeleteTask that interleaved with a handleGetTasks has
\* returned, the "tasks" cache holds no task list fetched before the remote
\* deletion took effect, that is, no list that still has the deleted task.
C24_NoListFromBeforeMutation ==
    (result.op = "deleteTask" /\ result.outcome.ok) =>
        \A list \in CachedLists :
            \A i \in 1..Len(list) : list[i].id # result.outcome.val.id

(***************************************************************************)
(* handleConvertToSubtask and handlePromoteSubtask (subtask-handlers.ts)   *)
(* followed await by await.  An invocation in `pending` holds the calls of *)
(* the client it has issued and not yet been handed the reply of.  The     *)
(* remote service answers a call or rejects it (a request error); the      *)
(* delivery of one reply runs the handler on to its next await or to its   *)
(* return.                                                                 *)
(***************************************************************************)
TxtStatus503 == <<"5", "0", "3">>
TxtAlreadyASubtask ==
    <<"\"", " ", "i", "s", " ", "a", "l", "r", "e", "a", "d", "y", " ", "a",
      " ", "s", "u", "b", "t", "a", "s", "k">>
TxtConvertToSubtask ==
    <<"c", "o", "n", "v", "e", "r", "t", "T", "o", "S", "u", "b", "t", "a",
      "s", "k">>

\* a call of the client that has been issued: todoistClient.<method>(...)
ClientCall(slot, method, id, content, parentId) ==
    [slot |-> slot, method |-> method, id |-> id, content |-> content,
     parentId |-> parentId, reply |-> Undefined]

\* the end of findTask once it has the task list: find by name, or throw
FoundByName(tasks, ref) ==
    LET searchTerm == toLowerCase(ref.task_name)
        Matches(x) == includes(toLowerCase(x.content), searchTerm)
        task == Find(tasks, Matches)
    IN IF task = Undefined
       THEN Err(Thrown("TaskNotFoundError", TxtTaskNotFound \o ref.task_name))
       ELSE Ok(task[1])

\* findTask up to its first await: the call it issues, or what it returns
\* from the module's cache, and the cache afterwards
StartFind(slot, ref, c, t) ==
    LET got == CacheGet(c, SubtaskCacheConfig, SubtaskCacheKey, t)
    IN IF ref.task_id # 0
       THEN [call |-> Some(ClientCall(slot, "getTask", ref.task_id, <<>>, 0)),
             res |-> Undefined, cache |-> c]
       ELSE IF got.value # Undefined
       THEN [call |-> Undefined, res |-> Some(FoundByName(got.value[1], ref)),
             cache |-> got.cache]
       ELSE [call |-> Some(ClientCall(slot, "getTasks", 0, <<>>, 0)),
             res |-> Undefined, cache |-> got.cache]

\* findTask from the reply of its call on
FinishFind(ref, call, c, t) ==
    LET reply == call.reply[1]
        tasks == extractArrayFromResponse(reply.val).items
    IN IF ~reply.ok
       THEN [res |-> Err(handleAPIError(TxtFindTask, reply.val)), cache |-> c]
       ELSE IF call.method = "getTask" THEN [res |-> Ok(reply.val), cache |-> c]
       ELSE [res |-> FoundByName(tasks, ref),
             cache |-> CacheSet(c, SubtaskCacheConfig, SubtaskCacheKey, tasks,
                                Undefined, t)]

OperationOf(op) ==
    IF op = "convertToSubtask" THEN TxtConvertToSubtask ELSE TxtPromoteSubtask

\* the handler's catch: throw ErrorHandler.handleAPIError(operation, error)
Rejects(inv, error, c) ==
    [next |-> Undefined, cache |-> c, called |-> inv.called,
     original |-> IF inv.found.task = Undefined THEN NoTask ELSE inv.found.task[1],
     outcome |-> Err(handleAPIError(OperationOf(inv.op), error))]

\* the handler is suspended again, as the invocation `inv`
Suspends(inv, c) ==
    [next |-> Some(inv), cache |-> c, called |-> inv.called, original |-> NoTask,
     outcome |-> Ok(NoTask)]

\* both handlers once every findTask has returned: the parentId check, then
\* `await todoistClient.deleteTask(task.id)`
AfterFind(inv, c) ==
    LET task == inv.found.task[1]
    IN IF inv.op = "convertToSubtask" /\ task.parentId # 0
       THEN Rejects(inv, Thrown("ValidationError",
                                TxtTaskQuote \o task.content \o TxtAlreadyASubtask), c)
       ELSE IF inv.op = "promoteSubtask" /\ task.parentId = 0
       THEN Rejects(inv, Thrown("ValidationError",
                                TxtTaskQuote \o task.content \o TxtNotASubtask), c)
       ELSE Suspends([inv EXCEPT !.stage = "delete",
                                 !.called = Append(@, "deleteTask"),
                                 !.awaited = <<ClientCall("task", "deleteTask",
                                                          task.id, <<>>, 0)>>], c)

\* the handler from the delivery of the reply to its k-th outstanding call on
Continue(inv, k, c, t) ==
    LET call == inv.awaited[k]
        reply == call.reply[1]
        rest == RemoveAt(inv.awaited, k)
        ref == IF call.slot = "task" THEN inv.args.task ELSE inv.args.parent
        finished == FinishFind(ref, call, c, t)
        found == [inv EXCEPT !.found[call.slot] = Some(finished.res.val),
                             !.awaited = rest]
        task == inv.found.task[1]
    IN IF inv.stage = "find"
       THEN IF ~finished.res.ok THEN Rejects(inv, finished.res.val, finished.cache)
            ELSE IF rest # <<>> THEN Suspends(found, finished.cache)
            ELSE AfterFind(found, finished.cache)
       ELSE IF ~reply.ok THEN Rejects(inv, reply.val, c)
       ELSE IF inv.stage = "delete"
       THEN Suspends([inv EXCEPT !.stage = "add",
                                 !.called = Append(@, "addTask"),
                                 !.awaited =
                                     <<ClientCall("task", "addTask", 0, task.content,
                                                  IF inv.op = "convertToSubtask"
                                                  THEN inv.found.parent[1].id
                                                  ELSE 0)>>], c)
       ELSE [next |-> Undefined, cache |-> CacheClear(c), called |-> inv.called,
             original |-> task, outcome |-> Ok(reply.val)]

\* a handler from its call up to its first await (or its return): the
\* findTask calls are started one after the other before any is awaited
Begin(op, args) ==
    LET first == StartFind("task", args.task, subtaskCache, now)
        second == IF op = "convertToSubtask"
                  THEN StartFind("parent", args.parent, first.cache, now)
                  ELSE [call |-> Undefined, res |-> Some(Ok(NoTask)),
                        cache |-> first.cache]
        issued == first.call \o second.call
        inv == [op |-> op, args |-> args, stage |-> "find", awaited |-> issued,
                called |-> [k \in 1..Len(issued) |-> issued[k].method],
                found |-> [task |-> IF first.res # Undefined /\ first.res[1].ok
                                    THEN Some(first.res[1].val) ELSE Undefined,
                           parent |-> IF second.res # Undefined /\ second.res[1].ok
                                      THEN Some(second.res[1].val) ELSE Undefined]]
    IN IF first.res # Undefined /\ ~first.res[1].ok
       THEN Rejects(inv, first.res[1].val, second.cache)
       ELSE IF second.res # Undefined /\ ~second.res[1].ok
       THEN Rejects(inv, second.res[1].val, second.cache)
       ELSE IF issued = <<>> THEN AfterFind(inv, second.cache)
       ELSE Suspends(inv, second.cache)

\* the state after a handler has run up to `step`
Settle(op, args, step) ==
    /\ subtaskCache' = step.cache
    /\ IF step.next # Undefined
       THEN /\ pending' = <<step.next[1]>>
            /\ UNCHANGED <<result, calls>>
       ELSE /\ pending' = <<>>
            /\ result' = [op |-> op, args |-> args, outcome |-> step.outcome,
                          original |-> step.original]
            /\ calls' = step.called
    /\ UNCHANGED <<remote, nextId, tasksCache, now, dryRun, taskIdCounter, cache,
                   written, lookups, labelStatsCache, completedTaskCache>>

TaskRefPool ==
    {[task_id |-> 1, task_name |-> <<>>], ById, ByName,
     [task_id |-> 0, task_name |-> <<"B">>]}

\* case "todoist_task_convert_to_subtask"
CallToolConvertToSubtask ==
    \E task \in TaskRefPool, parent \in TaskRefPool :
        /\ pending = <<>>
        /\ nextId <= MaxTasks
        /\ subtaskCache.hitCount + subtaskCache.missCount < MaxLookups
        /\ Settle("convertToSubtask", [task |-> task, parent |-> parent],
                  Begin("convertToSubtask", [task |-> task, parent |-> parent]))

\* case "todoist_subtask_promote"
CallToolPromoteSubtask ==
    \E task \in TaskRefPool :
        /\ pending = <<>>
        /\ nextId <= MaxTasks
        /\ subtaskCache.hitCount + subtaskCache.missCount < MaxLookups
        /\ Settle("promoteSubtask", [task |-> task, parent |-> task],
                  Begin("promoteSubtask", [task |-> task, parent |-> task]))

\* the remote service answers one outstanding call of the invocation, or
\* rejects it
RemoteAnswers ==
    \E i \in 1..Len(pending), rejected \in BOOLEAN :
      \E k \in 1..Len(pending[i].awaited) :
        LET call == pending[i].awaited[k]
            deleted == ApiDeleteTask(remote, call.id)
            created == ApiAddTask(remote, nextId, call.content, call.parentId)
            reply == IF rejected THEN Err(Thrown("Error", TxtStatus503))
                     ELSE IF call.method = "getTask" THEN ApiGetTask(remote, call.id)
                     ELSE IF call.method = "getTasks" THEN Ok(ApiGetTasks(remote))
                     ELSE IF call.method = "deleteTask"
                     THEN IF deleted.ok THEN Ok(NoTask) ELSE deleted
                     ELSE Ok(created[nextId])
        IN /\ call.reply = Undefined
           /\ pending' = [pending EXCEPT ![i].awaited[k].reply = Some(reply)]
           /\ remote' = IF rejected THEN remote
                        ELSE IF call.method = "deleteTask" /\ deleted.ok
                        THEN deleted.val
                        ELSE IF call.method = "addTask" THEN created
                        ELSE remote
           /\ nextId' = IF ~rejected /\ call.method = "addTask" THEN nextId + 1
                        ELSE nextId
           /\ UNCHANGED <<tasksCache, subtaskCache, now, dryRun, taskIdCounter,
                          calls, result, cache, written, lookups,
                          labelStatsCache, completedTaskCache>>

\* the reply to one outstanding call is handed to the invocation, which runs
\* on to its next await or to its return
ReplyDelivered ==
    \E i \in 1..Len(pending) :
      \E k \in 1..Len(pending[i].awaited) :
        /\ pending[i].awaited[k].reply # Undefined
        /\ Settle(pending[i].op, pending[i].args,
                  Continue(pending[i], k, subtaskCache, now))

InitConvert == InitCache

NextConvert ==
    \/ CallToolConvertToSubtask
    \/ CallToolPromoteSubtask
    \/ RemoteAnswers
    \/ ReplyDelivered

SpecConvert == InitConvert /\ [][NextConvert]_vars

ConvertOps == {"convertToSubtask", "promoteSubtask"}

\* C25: when handleConvertToSubtask or handlePromoteSubtask has failed (and no
\* later invocation is under way), the task it was called for still exists
\* remotely: it is never left deleted without its replacement having been
\* created.
C25_FailureLeavesOriginal ==
    (/\ pending = <<>>
     /\ result.op \in ConvertOps
     /\ ~result.outcome.ok
     /\ IsTask(result.original)) =>
        IsTask(remote[result.original.id])

\* C27: an invocation never has more than one call of the client outstanding.
C27_OneCallOutstanding ==
    \A i \in 1..Len(pending) : Len(pending[i].awaited) <= 1

(***************************************************************************)
(* The two other caches of data derived from tasks: the label statistics   *)
(* of label-handlers and the completed tasks of completed-task-handlers,   *)
(* queried between task mutations.                                         *)
(***************************************************************************)
CompletedTaskTtl == 60000
CompletedTaskMaxSize == 500

LabelStatsCacheConfig ==
    [defaultTtl |-> DefaultTtl, maxSize |-> 0,
     enableStats |-> TRUE, enableAccessTracking |-> TRUE]

CompletedTaskCacheConfig ==
    [defaultTtl |-> CompletedTaskTtl, maxSize |-> CompletedTaskMaxSize,
     enableStats |-> TRUE, enableAccessTracking |-> TRUE]

LabelStatsKey == "labels:stats"

TxtHome == <<"h", "o", "m", "e">>
TxtGetCompletedTasks ==
    <<"g", "e", "t", " ", "c", "o", "m", "p", "l", "e", "t", "e", "d", " ",
      "t", "a", "s", "k", "s">>

\* the account's labels, as getLabels lists them
AccountLabels ==
    <<[name |-> TxtHome, color |-> "red"], [name |-> TxtWork, color |-> "blue"]>>

\* the labels field of a task of the account: every task carries "work",
\* task 2 also "home"
LabelsOf(task) == IF task.id = 2 THEN {TxtHome, TxtWork} ELSE {TxtWork}

\* one element of stats: the tasks of the label, how many are completed.
\* The tasks of the model carry no createdAt, so mostRecentUse is null.
LabelStatOf(label, tasks) ==
    LET tasksWithLabel == {i \in 1..Len(tasks) : label.name \in LabelsOf(tasks[i])}
        completedTasks ==
            Cardinality({i \in tasksWithLabel : tasks[i].isCompleted})
    IN [label |-> label.name,
        totalTasks |-> Cardinality(tasksWithLabel),
        completedTasks |-> completedTasks,
        completionRate |-> IF Cardinality(tasksWithLabel) > 0
                           THEN RoundPercent(completedTasks,
                                             Cardinality(tasksWithLabel))
                           ELSE 0,
        color |-> label.color,
        mostRecentUse |-> Undefined]

\* stats.sort((a, b) => b.totalTasks - a.totalTasks): stable, descending
InsertStat(sorted, stat) ==
    LET k == Cardinality({i \in 1..Len(sorted) :
                              sorted[i].totalTasks >= stat.totalTasks})
    IN SubSeq(sorted, 1, k) \o <<stat>> \o SubSeq(sorted, k + 1, Len(sorted))

RECURSIVE SortStats(_)
SortStats(stats) ==
    IF stats = <<>> THEN <<>>
    ELSE InsertStat(SortStats(SubSeq(stats, 1, Len(stats) - 1)),
                    stats[Len(stats)])

\* handleGetLabelStats: the cached statistics, or those computed from
\* getLabels and getTasks and then cached
handleGetLabelStats ==
    LET got == CacheGet(labelStatsCache, LabelStatsCacheConfig, LabelStatsKey, now)
        cached == got.value # Undefined
        labels == AccountLabels
        tasks == extractArrayFromResponse(ApiGetTasks(remote)).items
        sortedStats ==
            IF cached THEN got.value[1]
            ELSE SortStats([i \in 1..Len(labels) |-> LabelStatOf(labels[i], tasks)])
    IN /\ labelStatsCache' =
              IF cached THEN got.cache
              ELSE CacheSet(got.cache, LabelStatsCacheConfig, LabelStatsKey,
                            sortedStats, Undefined, now)
       /\ result' = [op |-> "getLabelStats", args |-> <<>>,
                     outcome |-> Ok(sortedStats)]
       /\ calls' = IF cached THEN <<>> ELSE <<"getLabels", "getTasks">>
       /\ UNCHANGED <<remote, nextId, tasksCache, subtaskCache, now, dryRun,
                      lookups, completedTaskCache, cache, written, pending,
                      taskIdCounter>>

\* SyncAPIClient.getCompletedTasks: the completed items of the account
SyncGetCompletedTasks(r) ==
    LET checked(task) == task.isCompleted
    IN SelectSeq(Listing(r), checked)

\* filterCompletedTasks with the content_contains and limit criteria
filterCompletedTasks(tasks, args) ==
    LET searchTerm == toLowerCase(args.content_contains)
        matches(task) == includes(toLowerCase(task.content), searchTerm)
        filtered == IF args.content_contains # <<>>
                    THEN SelectSeq(tasks, matches) ELSE tasks
    IN IF args.limit # Undefined /\ args.limit[1] > 0
          /\ args.limit[1] < Len(filtered)
       THEN SubSeq(filtered, 1, args.limit[1])
       ELSE filtered

\* handleGetCompletedTasks: validate, then the cached list of the filters
\* or the one fetched, filtered and then cached
handleGetCompletedTasks(args) ==
    LET checked == validateLimit(args.limit)
        cacheKey == [content |-> args.content_contains, limit |-> args.limit]
        got == CacheGet(completedTaskCache, CompletedTaskCacheConfig, cacheKey,
                        now)
        cached == got.value # Undefined
        completedTasks ==
            IF cached THEN got.value[1]
            ELSE filterCompletedTasks(SyncGetCompletedTasks(remote), args)
    IN /\ completedTaskCache' =
              IF ~checked.ok THEN completedTaskCache
              ELSE IF cached THEN got.cache
              ELSE CacheSet(got.cache, CompletedTaskCacheConfig, cacheKey,
                            completedTasks, Undefined, now)
       /\ result' = [op |-> "getCompletedTasks", args |-> args,
                     outcome |->
                         IF ~checked.ok
                         THEN Err(handleAPIError(TxtGetCompletedTasks,
                                                 checked.val))
                         ELSE Ok(completedTasks)]
       /\ calls' = IF ~checked.ok \/ cached THEN <<>>
                   ELSE <<"getCompletedTasks">>
       /\ UNCHANGED <<remote, nextId, tasksCache, subtaskCache, now, dryRun,
                      lookups, labelStatsCache, cache, written, pending,
                      taskIdCounter>>

CompletedTasksArgs ==
    {[content_contains |-> <<>>, limit |-> Undefined],
     [content_contains |-> <<"p", "l", "a", "n">>, limit |-> Some(1)],
     [content_contains |-> <<>>, limit |-> Some(0)]}

InitDerived ==
    /\ remote = [i \in Ids |-> Task(i, ContentOf(i), IF i = 2 THEN 1 ELSE 0, i = 3)]
    /\ nextId = MaxTasks + 1
    /\ tasksCache = EmptyCache
    /\ subtaskCache = EmptyCache
    /\ now = 0
    /\ dryRun = FALSE
    /\ taskIdCounter = TaskIdCounterStart
    /\ calls = <<>>
    /\ result = NoResult
    /\ Untouched

GetLabelStats ==
    /\ labelStatsCache.hitCount + labelStatsCache.missCount < MaxLookups
    /\ handleGetLabelStats

GetCompletedTasks ==
    \E args \in CompletedTasksArgs :
        /\ completedTaskCache.hitCount + completedTaskCache.missCount < MaxLookups
        /\ handleGetCompletedTasks(args)

NextDerived ==
    \/ Tick
    \/ GetLabelStats
    \/ GetCompletedTasks
    \/ DeleteTask
    \/ CompleteTask

SpecDerived == InitDerived /\ [][NextDerived]_vars

\* C26: once a task mutation has returned, neither the label statistics
\* cache nor the completed tasks cache serves an entry, every entry they
\* could hold having been computed before the mutation.
C26_DerivedCachesInvalidated ==
    MutationReturned =>
        /\ ~ServesAny(labelStatsCache, now)
        /\ ~ServesAny(completedTaskCache, now)

(***************************************************************************)
(* The per-item loops of the bulk handlers, with a remote service that may *)
(* reject any single call: handleBulkCreateTasks and handleBulkDeleteTasks *)
(* of task-handlers, handleBulkCreateSubtasks of subtask-handlers.  The    *)
(* answers of the remote service to the calls of one invocation are an     *)
(* input: answers[k] is Undefined when the call for item k is carried out, *)
(* and the message of the request error when it is rejected.  Each session *)
(* is one bulk call on one of the accounts of the bounds.                  *)
(***************************************************************************)
MaxItems == 2

TxtContentRequired ==
    <<"c", "o", "n", "t", "e", "n", "t", " ", "i", "s", " ", "r", "e", "q",
      "u", "i", "r", "e", "d", " ", "a", "n", "d", " ", "m", "u", "s", "t",
      " ", "b", "e", " ", "a", " ", "s", "t", "r", "i", "n", "g">>
TxtContentCannotBeEmpty ==
    <<"c", "o", "n", "t", "e", "n", "t", " ", "c", "a", "n", "n", "o", "t",
      " ", "b", "e", " ", "e", "m", "p", "t", "y">>
TxtFailedToCreateTask ==
    <<"F", "a", "i", "l", "e", "d", " ", "t", "o", " ", "c", "r", "e", "a",
      "t", "e", " ", "t", "a", "s", "k", " ", "\"">>
TxtFailedToDeleteTask ==
    <<"F", "a", "i", "l", "e", "d", " ", "t", "o", " ", "d", "e", "l", "e",
      "t", "e", " ", "t", "a", "s", "k", " ", "\"">>
TxtQuoteColon ==
    <<"\"", ":", " ">>
TxtBadRequest ==
    <<"B", "a", "d", " ", "R", "e", "q", "u", "e", "s", "t">>
TxtUnauthorized ==
    <<"U", "n", "a", "u", "t", "h", "o", "r", "i", "z", "e", "d">>
TxtForbidden ==
    <<"F", "o", "r", "b", "i", "d", "d", "e", "n">>
TxtNotFound ==
    <<"N", "o", "t", " ", "F", "o", "u", "n", "d">>
TxtInvalidRequestFormat ==
    <<"I", "n", "v", "a", "l", "i", "d", " ", "r", "e", "q", "u", "e", "s",
      "t", " ", "f", "o", "r", "m", "a", "t", ".", " ", "C", "h", "e", "c",
      "k", " ", "t", "h", "a", "t", " ", "a", "l", "l", " ", "p", "a", "r",
      "a", "m", "e", "t", "e", "r", "s", " ", "a", "r", "e", " ", "c", "o",
      "r", "r", "e", "c", "t", ".">>
TxtAuthenticationFailed ==
    <<"A", "u", "t", "h", "e", "n", "t", "i", "c", "a", "t", "i", "o", "n",
      " ", "f", "a", "i", "l", "e", "d", ".", " ", "C", "h", "e", "c", "k",
      " ", "y", "o", "u", "r", " ", "A", "P", "I", " ", "t", "o", "k", "e",
      "n", ".">>
TxtAccessDenied ==
    <<"A", "c", "c", "e", "s", "s", " ", "d", "e", "n", "i", "e", "d", ".",
      " ", "Y", "o", "u", " ", "m", "a", "y", " ", "n", "o", "t", " ", "h",
      "a", "v", "e", " ", "p", "e", "r", "m", "i", "s", "s", "i", "o", "n",
      " ", "t", "o", " ", "a", "d", "d", " ", "t", "a", "s", "k", "s", " ",
      "t", "o", " ", "t", "h", "i", "s", " ", "p", "r", "o", "j", "e", "c",
      "t", ".">>
TxtProjectOrSectionNotFound ==
    <<"P", "r", "o", "j", "e", "c", "t", " ", "o", "r", " ", "s", "e", "c",
      "t", "i", "o", "n", " ", "n", "o", "t", " ", "f", "o", "u", "n", "d",
      ".", " ", "V", "e", "r", "i", "f", "y", " ", "t", "h", "e", " ", "I",
      "D", "s", " ", "a", "r", "e", " ", "c", "o", "r", "r", "e", "c", "t",
      ".">>
TxtBulkCreateTasks ==
    <<"b", "u", "l", "k", " ", "c", "r", "e", "a", "t", "e", " ", "t", "a",
      "s", "k", "s">>
TxtBulkCreateSubtasks ==
    <<"b", "u", "l", "k", "C", "r", "e", "a", "t", "e", "S", "u", "b", "t",
      "a", "s", "k", "s">>
TxtAtLeastOneSubtask ==
    <<"A", "t", " ", "l", "e", "a", "s", "t", " ", "o", "n", "e", " ", "s",
      "u", "b", "t", "a", "s", "k", " ", "i", "s", " ", "r", "e", "q", "u",
      "i", "r", "e", "d">>

\* validateTaskContent (validateAndSanitizeContent, required), for contents
\* within the length limit and free of markup
validateTaskContent(content) ==
    IF content = <<>>
    THEN Err(Thrown("ValidationError", TxtContentRequired))
    ELSE IF trim(content) = <<>>
    THEN Err(Thrown("ValidationError", TxtContentCannotBeEmpty))
    ELSE Ok(trim(content))

\* what a client call answered with `answer` gives: the request error, or
\* what the remote service returns for it
Answered(answer, returned) ==
    IF answer # Undefined THEN Err(Thrown("Error", answer[1])) ELSE returned

\* the loop variables before the first item
LoopStart(r, id) ==
    [remote |-> r, nextId |-> id, succeeded |-> <<>>, errors |-> <<>>,
     calls |-> <<>>]

\* the line handleBulkCreateTasks pushes to errors for a failed item
CreateErrorLine(content, errorMessage) ==
    TxtFailedToCreateTask \o content \o TxtQuoteColon \o
    (IF includes(errorMessage, Needle400) \/ includes(errorMessage, TxtBadRequest)
     THEN TxtInvalidRequestFormat
     ELSE IF \/ includes(errorMessage, Needle401)
             \/ includes(errorMessage, TxtUnauthorized)
     THEN TxtAuthenticationFailed
     ELSE IF \/ includes(errorMessage, Needle403)
             \/ includes(errorMessage, TxtForbidden)
     THEN TxtAccessDenied
     ELSE IF \/ includes(errorMessage, TxtStatus404)
             \/ includes(errorMessage, TxtNotFound)
     THEN TxtProjectOrSectionNotFound
     ELSE errorMessage)

\* one pass of the loop of handleBulkCreateTasks, for an item that has a
\* content only
CreateTaskItem(st, taskArgs, answer) ==
    LET checked == validateTaskContent(taskArgs.content)
        task == Answered(answer,
                         Ok(Task(st.nextId, taskArgs.content, 0, FALSE)))
    IN IF ~checked.ok
       THEN [st EXCEPT !.errors =
                 Append(@, CreateErrorLine(taskArgs.content, checked.val.message))]
       ELSE IF ~task.ok
       THEN [st EXCEPT !.errors =
                 Append(@, CreateErrorLine(taskArgs.content, task.val.message)),
                       !.calls = Append(@, "addTask")]
       ELSE [st EXCEPT !.remote = ApiAddTask(st.remote, st.nextId,
                                             taskArgs.content, 0),
                       !.nextId = @ + 1,
                       !.succeeded = Append(@, task.val),
                       !.calls = Append(@, "addTask")]

RECURSIVE CreateTasksLoop(_, _, _, _)
CreateTasksLoop(tasks, n, answers, st) ==
    IF n = 0 THEN st
    ELSE CreateTaskItem(CreateTasksLoop(tasks, n - 1, answers, st), tasks[n],
                        answers[n])

\* one pass of the loop of handleBulkCreateSubtasks
CreateSubtaskItem(st, parent, subtaskData, answer) ==
    LET checked == validateTaskContent(subtaskData.content)
        subtask == Answered(answer,
                            Ok(Task(st.nextId, subtaskData.content, parent.id,
                                    FALSE)))
    IN IF ~checked.ok
       THEN [st EXCEPT !.errors =
                 Append(@, [task |-> subtaskData, error |-> checked.val.message])]
       ELSE IF ~subtask.ok
       THEN [st EXCEPT !.errors =
                 Append(@, [task |-> subtaskData, error |-> subtask.val.message]),
                       !.calls = Append(@, "addTask")]
       ELSE [st EXCEPT !.remote = ApiAddTask(st.remote, st.nextId,
                                             subtaskData.content, parent.id),
                       !.nextId = @ + 1,
                       !.succeeded = Append(@, subtask.val),
                       !.calls = Append(@, "addTask")]

RECURSIVE CreateSubtasksLoop(_, _, _, _, _)
CreateSubtasksLoop(parent, subtasks, n, answers, st) ==
    IF n = 0 THEN st
    ELSE CreateSubtaskItem(CreateSubtasksLoop(parent, subtasks, n - 1, answers, st),
                           parent, subtasks[n], answers[n])

\* a loop that gives up at the first failed item
DeleteTaskItemStopping(st, task, answer) ==
    LET deleted == Answered(answer, ApiDeleteTask(st.remote, task.id))
    IN IF st.errors # <<>> THEN st
       ELSE IF ~deleted.ok
       THEN [st EXCEPT !.errors =
                 Append(@, TxtFailedToDeleteTask \o task.content
                           \o TxtQuoteColon \o deleted.val.message),
                       !.calls = Append(@, "deleteTask")]
       ELSE [st EXCEPT !.remote = deleted.val,
                       !.succeeded = Append(@, task.content),
                       !.calls = Append(@, "deleteTask")]

\* one pass of the loop of handleBulkDeleteTasks
DeleteTaskItem(st, task, answer) ==
    LET deleted == Answered(answer, ApiDeleteTask(st.remote, task.id))
    IN IF ~deleted.ok
       THEN [st EXCEPT !.errors =
                 Append(@, TxtFailedToDeleteTask \o task.content
                           \o TxtQuoteColon \o deleted.val.message),
                       !.calls = Append(@, "deleteTask")]
       ELSE [st EXCEPT !.remote = deleted.val,
                       !.succeeded = Append(@, task.content),
                       !.calls = Append(@, "deleteTask")]

RECURSIVE DeleteTasksLoop(_, _, _, _)
DeleteTasksLoop(tasks, n, answers, st) ==
    IF n = 0 THEN st
    ELSE DeleteTaskItem(DeleteTasksLoop(tasks, n - 1, answers, st), tasks[n],
                        answers[n])

\* what a bulk handler reports of its loop
Processed(items, st) ==
    Ok([kind |-> "completed", items |-> items, succeeded |-> st.succeeded,
        errors |-> st.errors])

\* handleBulkCreateTasks: the loop, then the "tasks" cache is cleared
handleBulkCreateTasks(args, answers) ==
    LET st == CreateTasksLoop(args.tasks, Len(args.tasks), answers,
                              LoopStart(remote, nextId))
    IN /\ remote' = st.remote
       /\ nextId' = st.nextId
       /\ tasksCache' = CacheClear(tasksCache)
       /\ calls' = st.calls
       /\ result' = [op |-> "bulkCreateTasks", args |-> args,
                     outcome |-> Processed(args.tasks, st)]
       /\ UNCHANGED <<subtaskCache, now, dryRun, lookups, labelStatsCache,
                      completedTaskCache, cache, written, pending,
                      taskIdCounter>>

\* handleBulkCreateSubtasks: the array check, findTask for the parent, the
\* loop, then the module's cache is cleared
handleBulkCreateSubtasks(args, answers) ==
    LET found == findTask(subtaskCache,
                          [task_id |-> args.parent_task_id,
                           task_name |-> args.parent_task_name], remote, now)
        st == CreateSubtasksLoop(found.res.val, args.subtasks,
                                 Len(args.subtasks), answers,
                                 LoopStart(remote, nextId))
        rejected == Len(args.subtasks) = 0
        done == ~rejected /\ found.res.ok
    IN /\ remote' = IF done THEN st.remote ELSE remote
       /\ nextId' = IF done THEN st.nextId ELSE nextId
       /\ subtaskCache' = IF rejected THEN subtaskCache
                          ELSE IF ~found.res.ok THEN found.cache
                          ELSE CacheClear(found.cache)
       /\ calls' = IF rejected THEN <<>>
                   ELSE IF ~found.res.ok THEN found.calls
                   ELSE found.calls \o st.calls
       /\ result' =
              [op |-> "bulkCreateSubtasks", args |-> args,
               outcome |->
                   IF rejected
                   THEN Err(handleAPIError(
                                TxtBulkCreateSubtasks,
                                Thrown("ValidationError", TxtAtLeastOneSubtask)))
                   ELSE IF ~found.res.ok
                   THEN Err(handleAPIError(TxtBulkCreateSubtasks, found.res.val))
                   ELSE Processed(args.subtasks, st)]
       /\ UNCHANGED <<tasksCache, now, dryRun, lookups, labelStatsCache,
                      completedTaskCache, cache, written, pending,
                      taskIdCounter>>

\* handleBulkDeleteTasks with the answers of the remote service to its
\* deleteTask calls
handleBulkDeleteTasksAnswered(args, answers) ==
    LET checked == validateBulkSearchCriteria(args.search_criteria)
        allTasks == extractArrayFromResponse(ApiGetTasks(remote)).items
        matchingTasks == filterTasksByCriteria(allTasks, args.search_criteria)
        st == DeleteTasksLoop(matchingTasks, Len(matchingTasks), answers,
                              LoopStart(remote, nextId))
        done == checked.ok /\ Len(matchingTasks) > 0
    IN /\ tasksCache' = CacheClear(tasksCache)
       /\ remote' = IF done THEN st.remote ELSE remote
       /\ calls' = IF ~checked.ok THEN <<>>
                   ELSE IF ~done THEN <<"getTasks">>
                   ELSE <<"getTasks">> \o st.calls
       /\ result' =
              [op |-> "bulkDeleteTasks", args |-> args,
               outcome |->
                   IF ~checked.ok
                   THEN Err(BulkRejection[TxtBulkDeleteTasks, checked.val])
                   ELSE IF ~done
                   THEN Ok([kind |-> "noMatch", items |-> <<>>,
                            succeeded |-> <<>>, errors |-> <<>>])
                   ELSE Processed(matchingTasks, st)]
       /\ UNCHANGED <<nextId, subtaskCache, now, dryRun, lookups,
                      labelStatsCache, completedTaskCache, cache, written,
                      pending, taskIdCounter>>

\* answers of the remote service to the calls of one invocation
Answers == [1..MaxTasks -> {Undefined, Some(TxtStatus503), Some(TxtStatus404)}]

ItemContents == {<<>>, <<"z">>, TxtCall}

\* the argument arrays: one to MaxItems items
ItemLists ==
    UNION {[1..n -> {[content |-> c] : c \in ItemContents}] : n \in 1..MaxItems}

InitBulkItems ==
    /\ \E held \in 1..(MaxTasks - 1) :
          /\ remote = [i \in Ids |->
                         IF i <= held
                         THEN Task(i, ContentOf(i), IF i = 2 THEN 1 ELSE 0, FALSE)
                         ELSE NoTask]
          /\ nextId = held + 1
    /\ tasksCache = EmptyCache
    /\ subtaskCache = EmptyCache
    /\ now = 0
    /\ dryRun = FALSE
    /\ taskIdCounter = TaskIdCounterStart
    /\ calls = <<>>
    /\ result = NoResult
    /\ Untouched

BulkCreateTasksAnswered ==
    \E tasks \in ItemLists, answers \in Answers :
        /\ result = NoResult
        /\ nextId + Len(tasks) - 1 <= MaxTasks
        /\ handleBulkCreateTasks([tasks |-> tasks], answers)

BulkCreateSubtasksAnswered ==
    \E subtasks \in ItemLists \cup {<<>>}, answers \in Answers,
       parent \in {1, MaxTasks} :
        /\ result = NoResult
        /\ nextId + Len(subtasks) - 1 <= MaxTasks
        /\ handleBulkCreateSubtasks([parent_task_id |-> parent,
                                     parent_task_name |-> <<>>,
                                     subtasks |-> subtasks], answers)

BulkDeleteTasksAnswered ==
    \E c \in {<<"l">>, <<"p", "l", "a", "n">>}, answers \in Answers :
        /\ result = NoResult
        /\ handleBulkDeleteTasksAnswered(
               [search_criteria |-> [project_id |-> Undefined,
                                     priority |-> Undefined,
                                     content_contains |-> Some(c)]], answers)

NextBulkItems ==
    \/ BulkCreateTasksAnswered
    \/ BulkCreateSubtasksAnswered
    \/ BulkDeleteTasksAnswered

SpecBulkItems == InitBulkItems /\ [][NextBulkItems]_vars

BulkItemOps == {"bulkCreateTasks", "bulkCreateSubtasks", "bulkDeleteTasks"}

BulkItemsProcessed ==
    /\ result.op \in BulkItemOps
    /\ result.outcome.ok
    /\ result.outcome.val.kind = "completed"

\* the j-th smallest member of a set of indices
NthOf(S, j) == CHOOSE x \in S : Cardinality({y \in S : y <= x}) = j

\* the entry of the success list is that of the item
SuccessOf(op, entry, item) ==
    IF op = "bulkDeleteTasks" THEN entry = item.content
    ELSE entry.content = item.content

\* the entry of the failure list is that of the item
FailureOf(op, entry, item) ==
    IF op = "bulkCreateSubtasks" THEN entry.task = item
    ELSE includes(entry, <<"\"">> \o item.content \o TxtQuoteColon)

\* the item needs a remote call: it passes the checks made before the call
NeedsCall(op, item) ==
    op = "bulkDeleteTasks" \/ validateTaskContent(item.content).ok

PerItemMethod(op) == IF op = "bulkDeleteTasks" THEN "deleteTask" ELSE "addTask"

StoredKeys(c) == {c.entries[i].key : i \in 1..Len(c.entries)}

\* C29: a set of a new key on a cache that holds maxSize entries evicts
\* exactly one entry, one whose last access (the last successful get, or
\* the set when it was never read) is the oldest, and stores the new key.
C29_FullSetEvictsLeastRecentlyUsed ==
    [][(/\ now' = now
        /\ result'.op = "set"
        /\ cache.config.maxSize # 0
        /\ Len(cache.entries) = cache.config.maxSize
        /\ result'.key \notin StoredKeys(cache)) =>
          \E i \in 1..Len(cache.entries) :
              /\ \A j \in 1..Len(cache.entries) :
                     cache.entries[i].lastAccessed <= cache.entries[j].lastAccessed
              /\ StoredKeys(cache') =
                     (StoredKeys(cache) \ {cache.entries[i].key})
                         \cup {result'.key}
              /\ Len(cache'.entries) = Len(cache.entries)]_vars

(***************************************************************************)
(* The ttl of a stored entry changed through extendTtl and updateTtl.      *)
(* Here `written` follows a change of ttl only while the entry is still    *)
(* within its ttl, so that Valid tells whether the entry has ever been     *)
(* past its ttl since its set.                                             *)
(***************************************************************************)
TtlCap == 2 * DefaultTtl

\* extendTtl(key, additionalTtl): false when the Map holds no entry for key
ExtendTtl ==
    \E key \in Keys, additionalTtl \in {TickStep} :
        LET i == CacheIndex(cache, key)
        IN /\ i # 0 => cache.entries[i].ttl + additionalTtl <= TtlCap
           /\ CacheCall("extendTtl", key, [found |-> i # 0],
                        IF i = 0 THEN cache
                        ELSE [cache EXCEPT !.entries[i].ttl = @ + additionalTtl],
                        IF i # 0 /\ Valid(key, now)
                        THEN [written EXCEPT ![key][1].ttl = @ + additionalTtl]
                        ELSE written)

\* updateTtl(key, newTtl): false when the Map holds no entry for key
UpdateTtl ==
    \E key \in Keys, newTtl \in {DefaultTtl} :
        LET i == CacheIndex(cache, key)
        IN CacheCall("updateTtl", key, [found |-> i # 0],
                     IF i = 0 THEN cache
                     ELSE [cache EXCEPT !.entries[i].ttl = newTtl],
                     IF i # 0 /\ Valid(key, now)
                     THEN [written EXCEPT ![key][1].ttl = newTtl]
                     ELSE written)

NextTtl ==
    \/ Tick
    \/ SetForStats
    \/ GetEntry
    \/ HasEntry
    \/ ExtendTtl
    \/ UpdateTtl

SpecTtl == InitSimpleCache /\ [][NextTtl]_vars

\* C30: once the entry of a key has been past its ttl, and until the key is
\* set again, get returns absent and has returns false for it, whatever
\* extendTtl and updateTtl calls were made in between.
C30_ExpiredEntryNeverRevived ==
    [][(/\ now' = now
        /\ result'.op \in {"get", "has"}
        /\ written[result'.key] # Undefined
        /\ ~Valid(result'.key, now)) =>
          IF result'.op = "get" THEN result'.value = Undefined
          ELSE ~result'.found]_vars
====
